---- MODULE Spec2Model ----
(***************************************************************************)
(* SEED (System for Environmental Entity Distribution), DarkMod/SEED.cpp.   *)
(*                                                                         *)
(* The model follows the code of class Seed: the two linear congruential   *)
(* generators, ComputeEntityCount, Prepare / PrepareEntities,              *)
(* CombineEntities, SpawnEntity, CullEntity, Think and the events.         *)
(*                                                                         *)
(* Numbers.  The code computes with 32 bit ints and with floats.  Ints     *)
(* keep their width (the generators wrap modulo 2^32).  Floats are put on  *)
(* an integer grid: RandomFloat() is the exact fraction mant / 2^23 the    *)
(* code builds, and a product RandomFloat() * n is floor(mant * n / 2^23). *)
(* Angles are multiples of 90 degrees of yaw, so every oriented box is     *)
(* axis aligned.  The quality bias cv_lod_bias is kept in hundredths and   *)
(* the LODBIAS() factor in thousandths.                                    *)
(***************************************************************************)
EXTENDS Integers, Sequences, FiniteSets, TLC

(***************************************************************************)
(* 32 bit arithmetic.  An int is kept as the signed value the code holds;  *)
(* products are formed on 16 bit halves so that no intermediate value      *)
(* leaves the 32 bit range.                                                *)
(***************************************************************************)
Hi16(x) == (x \div 65536) % 65536
Lo16(x) == x % 65536

ToInt32(hi, lo) == IF hi >= 32768 THEN (hi - 65536) * 65536 + lo ELSE hi * 65536 + lo

\* (a * c) mod 2^16 for 0 <= a, c < 2^16
MulLo16(a, c) == ((a * (c % 256)) + ((a * (c \div 256)) % 256) * 256) % 65536

\* floor(a * c / 2^16) mod 2^16 for 0 <= a, c < 2^16
MulHi16(a, c) == ((((a * (c % 256)) \div 256) + a * (c \div 256)) \div 256) % 65536

\* (ch * 2^16 + cl) * x + (dh * 2^16 + dl), truncated to a 32 bit int
Lcg32(x, ch, cl, dh, dl) ==
    LET xh == Hi16(x)
        xl == Lo16(x)
        pl == MulLo16(xl, cl)
        ph == (MulHi16(xl, cl) + MulLo16(xh, cl) + MulLo16(xl, ch)) % 65536
        sl == pl + dl
        sh == (ph + dh + (sl \div 65536)) % 65536
    IN  ToInt32(sh, sl % 65536)

\* m_iSeed_2 = 1103515245L * m_iSeed_2 + 12345L
NextSeed2(s2) == Lcg32(s2, 16838, 20077, 0, 12345)

\* return m_iSeed_2 & 0x7FFFFFF
SeedMask(s2) == (Hi16(s2) % 2048) * 65536 + Lo16(s2)

\* m_iSeed = 1664525L * m_iSeed + 1013904223L
NextSeed(s) == Lcg32(s, 25, 26125, 15470, 62303)

\* m_iSeed & IEEE_MASK: the 23 mantissa bits of the float in [1,2)
Mantissa(s) == (Hi16(s) % 128) * 65536 + Lo16(s)

\* (int)( RandomFloat() * n ) for 0 <= n < 256, RandomFloat() = mant / 2^23
Scaled(mant, n) == (mant * n) \div 8388608


(***************************************************************************)
(* Vectors, angles, boxes and bounds (idVec3, idAngles, idMat3, idBox,     *)
(* idBounds) on the integer grid.                                          *)
(***************************************************************************)
Abs(a) == IF a < 0 THEN -a ELSE a
Max(a, b) == IF a > b THEN a ELSE b
Min(a, b) == IF a < b THEN a ELSE b

VAdd(a, b) == <<a[1] + b[1], a[2] + b[2], a[3] + b[3]>>
VSub(a, b) == <<a[1] - b[1], a[2] - b[2], a[3] - b[3]>>
LengthSqr(a) == a[1] * a[1] + a[2] * a[2] + a[3] * a[3]
Zero3 == <<0, 0, 0>>

\* floor of the square root (idMath::Sqrt on the grid)
ISqrt(n) == CHOOSE r \in 0..n : r * r <= n /\ (r + 1) * (r + 1) > n

\* idAngles::ToMat3 for an angle with yaw only: the matrix is named by its yaw in 0..359
ToMat3(yaw) == yaw % 360

\* idMat3::ToAngles: yaw comes from atan2 and lies in (-180, 180]
ToAngles(mat) == IF mat > 180 THEN mat - 360 ELSE mat

\* idVec3 * idMat3 for a yaw matrix
Rotate(v, mat) ==
    CASE mat = 0   -> v
      [] mat = 90  -> <<-v[2], v[1], v[3]>>
      [] mat = 180 -> <<-v[1], -v[2], v[3]>>
      [] mat = 270 -> <<v[2], -v[1], v[3]>>

\* world aligned extents of a box with the given local extents under a yaw matrix
RotExtents(e, mat) == IF mat \in {90, 270} THEN <<e[2], e[1], e[3]>> ELSE e

\* idBox( center, extents, axis )
idBox(center, extents, mat) == [c |-> center, e |-> RotExtents(extents, mat)]

\* idBox::ExpandSelf
BoxExpand(b, d) == [c |-> b.c, e |-> <<b.e[1] + d, b.e[2] + d, b.e[3] + d>>]

\* idBox::ContainsPoint (a point on the surface is inside)
BoxContainsPoint(b, p) == \A k \in 1..3 : Abs(p[k] - b.c[k]) <= b.e[k]

\* idBox::IntersectsBox (touching boxes intersect)
BoxIntersectsBox(a, b) == \A k \in 1..3 : Abs(a.c[k] - b.c[k]) <= a.e[k] + b.e[k]

\* idBounds + idVec3: translation
BoundsTranslate(b, t) == [lo |-> VAdd(b.lo, t), hi |-> VAdd(b.hi, t)]

\* idBounds * idMat3: the bounds of the rotated bounds (rotation about the world origin)
BoundsRotate(b, mat) ==
    LET p == Rotate(b.lo, mat)
        q == Rotate(b.hi, mat)
    IN  [lo |-> <<Min(p[1], q[1]), Min(p[2], q[2]), Min(p[3], q[3])>>,
         hi |-> <<Max(p[1], q[1]), Max(p[2], q[2]), Max(p[3], q[3])>>]

\* idBounds::ExpandSelf
BoundsExpand(b, d) == [lo |-> <<b.lo[1] - d, b.lo[2] - d, b.lo[3] - d>>,
                       hi |-> <<b.hi[1] + d, b.hi[2] + d, b.hi[3] + d>>]

\* idBounds::IntersectsBounds (touching bounds intersect)
BoundsIntersectsBounds(a, b) == \A k \in 1..3 : ~(a.hi[k] < b.lo[k] \/ a.lo[k] > b.hi[k])

\* idPolar3( radius, 0, phi ).ToVec3() with phi on quarter turns: ( r cos phi, 0, r sin phi )
PolarToVec3(radius, quarter) ==
    CASE quarter = 0 -> <<radius, 0, 0>>
      [] quarter = 1 -> <<0, 0, radius>>
      [] quarter = 2 -> <<-radius, 0, 0>>
      [] quarter = 3 -> <<0, 0, -radius>>

(***************************************************************************)
(* Entity flags (seed_entity_t.flags) and the bit operations on them.      *)
(***************************************************************************)
SEED_ENTITY_HIDDEN == 1
SEED_ENTITY_EXISTS == 2
SEED_ENTITY_SPAWNED == 4
SEED_ENTITY_PSEUDO == 8

RECURSIVE BitAnd(_, _)
BitAnd(a, b) == IF a = 0 \/ b = 0 THEN 0
                ELSE (a % 2) * (b % 2) + 2 * BitAnd(a \div 2, b \div 2)

\* the C operator ! on an int
LogicalNot(a) == IF a = 0 THEN 1 ELSE 0

HasFlag(e, f) == BitAnd(e.flags, f) # 0

\* maximum number of tries to place an entity
MAX_TRIES == 8

NOCOLLIDE_STATIC == 2
NOCOLLIDE_ATALL == 15

FUNC_STATIC == "func_static"
FUNC_DUMMY == "atdm:seed_dummy_static"

(***************************************************************************)
(* State.                                                                  *)
(***************************************************************************)
VARIABLES
    \* the Seed object
    active, thinkFlag, m_bWaitForTrigger, m_bPrepared, m_bCombine,
    m_iSeed, m_iSeed_2, m_iOrgSeed, m_fLODBias,
    m_iNumEntities, m_iNumExisting, m_iNumVisible, m_iNumStaticMulties,
    m_bRestoreLOD, m_iThinkCounter, sinceDistCheck,
    m_Classes, m_Entities, m_Inhibitors, m_Skins, targets,
    \* what the map and the build fix: spawnArgs of the SEED, its size, argument order
    spawnArgs,
    \* the host: cv_lod_bias, gameLocal.entities, the player, the visibility set
    cv_lod_bias, entities, playerOrigin, inPVS, hostSpawn, savefile,
    \* history kept for the properties
    prepLog, lastPrep, cullLog, lastThink, countLog, loadLog

seedVars == <<active, thinkFlag, m_bWaitForTrigger, m_bPrepared, m_bCombine,
              m_iSeed, m_iSeed_2, m_iOrgSeed, m_fLODBias,
              m_iNumEntities, m_iNumExisting, m_iNumVisible, m_iNumStaticMulties,
              m_bRestoreLOD, m_iThinkCounter, sinceDistCheck,
              m_Classes, m_Entities, m_Inhibitors, m_Skins, targets>>
hostVars == <<cv_lod_bias, entities, playerOrigin, inPVS, hostSpawn, savefile>>
histVars == <<prepLog, lastPrep, cullLog, lastThink, countLog, loadLog>>
vars == <<seedVars, spawnArgs, hostVars, histVars>>

\* m_origin: the SEED brush is centred on the world origin
m_origin == Zero3

(***************************************************************************)
(* Seed::AddSkin                                                           *)
(***************************************************************************)
SkinIndex(skins, skin) ==
    IF \E k \in 1..Len(skins) : skins[k] = skin
    THEN (CHOOSE k \in 1..Len(skins) : skins[k] = skin /\ \A j \in 1..(k - 1) : skins[j] # skin) - 1
    ELSE Len(skins)

AddSkin(skins, skin) ==
    IF \E k \in 1..Len(skins) : skins[k] = skin THEN skins ELSE Append(skins, skin)

RECURSIVE AddSkins(_, _)
AddSkins(skins, names) ==
    IF names = <<>> THEN skins ELSE AddSkins(AddSkin(skins, Head(names)), Tail(names))

\* the score of a class: 0 for a watch class, else seed_score, at least 1
ClassScore(seed_score, watch) ==
    IF ~watch THEN (IF seed_score < 1 THEN 1 ELSE seed_score) ELSE 0

(***************************************************************************)
(* Seed::AddClassFromEntity: compile one template entity into a class.     *)
(* ent is the record of the spawnargs and properties of the template that  *)
(* the code reads; args are the spawnArgs of the SEED.                     *)
(***************************************************************************)
AddClassFromEntity(ent, watch, args, skins, combine) ==
    LET nocombine0 == IF ent.seed_combine THEN FALSE ELSE TRUE
        nocombine1 == IF ent.neverCombineType THEN TRUE ELSE nocombine0
        nocombine  == IF ~nocombine1 /\ (ent.scriptobject # "" \/ ent.particleModel)
                      THEN TRUE ELSE nocombine1
        score == ClassScore(ent.seed_score, watch)
        skinsAll == AddSkins(skins, ent.skin)
        classSkins == IF ent.skin = <<>> THEN <<0>>
                      ELSE [k \in 1..Len(ent.skin) |-> SkinIndex(skinsAll, ent.skin[k])]
        sink_max == IF ent.seed_sink_max < ent.seed_sink_min THEN ent.seed_sink_min
                    ELSE ent.seed_sink_max
        bunching == IF ent.seed_bunching < 0 \/ ent.seed_bunching > 256 THEN 0
                    ELSE ent.seed_bunching
        nocollide == IF ent.seed_spacing > 0 THEN NOCOLLIDE_ATALL ELSE NOCOLLIDE_STATIC
        sizeX == IF ent.size[1] < 1 THEN 1 ELSE ent.size[1]
        sizeY == IF ent.size[2] < 1 THEN 1 ELSE ent.size[2]
        cullRange == ent.seed_cull_range
        useDist == cullRange > 0 /\ ent.hide_distance > 0
        cullDist == IF useDist THEN (ent.hide_distance + cullRange) * (ent.hide_distance + cullRange)
                    ELSE 0
        spawnDist == IF useDist
                     THEN (ent.hide_distance + cullRange \div 2) * (ent.hide_distance + cullRange \div 2)
                     ELSE 0
        classname == IF ent.defName = FUNC_STATIC /\ (ent.inlineModel \/ combine)
                     THEN FUNC_DUMMY ELSE ent.defName
        \* GetFloat of a key of the target, the value of a key of the SEED as default
        GetFloat(key, own) == IF key \in DOMAIN ent THEN ent[key] ELSE args[own]
        z_min == GetFloat("seed_z_min", "z_min")
        z_max0 == GetFloat("seed_z_max", "z_max")
        \* z_max < z_max is never true, so z_max is not raised to z_min
        z_max == IF z_max0 < z_max0 THEN z_min ELSE z_max0
        z_fadein0 == GetFloat("seed_z_fadein", "z_fadein")
        z_fadeout0 == GetFloat("seed_z_fadeout", "z_fadeout")
        z_fadein1 == IF z_fadein0 < 0 THEN 0 ELSE z_fadein0
        z_fadeout == IF z_fadeout0 < 0 THEN 0 ELSE z_fadeout0
        z_fadein == IF z_min + z_fadein1 > z_max - z_fadeout
                    THEN z_max - z_fadeout - z_min ELSE z_fadein1
        floor == IF z_min # -1000000 /\ ~ent.seed_floor THEN TRUE ELSE ent.seed_floor
    IN  [ skins |-> skinsAll,
          class |->
            [ classname |-> classname, modelname |-> ent.model,
              pseudo |-> FALSE, watch |-> watch,
              solid |-> ent.solid, nocombine |-> nocombine,
              clip |-> ent.defName = FUNC_STATIC /\ ent.inlineModel,
              hasPhysicsObj |-> FALSE, score |-> score, skins |-> classSkins,
              origin |-> ent.origin, offset |-> ent.seed_offset,
              floor |-> floor, noinhibit |-> ent.seed_noinhibit,
              spacing |-> ent.seed_spacing,
              sink_min |-> ent.seed_sink_min, sink_max |-> sink_max,
              scale_min |-> ent.seed_scale_min,
              scale_max |-> [k \in 1..3 |-> Max(ent.seed_scale_max[k], ent.seed_scale_min[k])],
              bunching |-> bunching, nocollide |-> nocollide,
              size |-> <<sizeX, sizeY, ent.size[3]>>,
              cullDist |-> cullDist, spawnDist |-> spawnDist,
              color_min |-> ent.seed_color_min,
              color_max |-> [k \in 1..3 |-> Max(ent.seed_color_max[k], ent.seed_color_min[k])],
              z_invert |-> ent.seed_z_invert, z_min |-> z_min, z_max |-> z_max,
              z_fadein |-> z_fadein, z_fadeout |-> z_fadeout,
              moveable |-> ent.moveable,
              maxEntities |-> args.seed_max_entities, numEntities |-> 0,
              seed |-> 0, offsets |-> <<>> ] ]

(***************************************************************************)
(* One statement after another: Apply(F, v) is F of the value of v, which  *)
(* is computed before F runs.                                              *)
(***************************************************************************)
Apply(F(_), v) == CHOOSE r \in {F(w) : w \in {v}} : TRUE

(***************************************************************************)
(* Seed::LODBIAS: the factor for the GUI setting, in thousandths.          *)
(* bias is cv_lod_bias in hundredths.                                      *)
(***************************************************************************)
LODBIAS(bias) ==
    IF bias < 80
    THEN (IF bias < 70 THEN bias * 14 ELSE bias * 12)
    ELSE IF bias > 100
         THEN (IF bias > 200 THEN 900 ELSE 1000) + ((bias - 100) * 10) \div 4
         ELSE bias * 10

(***************************************************************************)
(* Seed::ComputeEntityCount.  Returns the class table with numEntities set *)
(* and the new m_iNumEntities.                                             *)
(***************************************************************************)
RECURSIVE SumScores(_)
SumScores(classes) ==
    IF classes = <<>> THEN 0 ELSE Head(classes).score + SumScores(Tail(classes))

ScaledMaxEntities(args, bias) ==
    IF args.max_entities > 0 /\ args.max_entities > args.lod_scaling_limit
    THEN (args.max_entities * LODBIAS(bias)) \div 1000
    ELSE args.max_entities

\* the int division of the code; a zero divisor is undefined in C++ (the properties
\* show that no call ever divides by zero)
IntDiv(a, b) == IF b = 0 THEN 0 ELSE a \div b

\* variant: every class gets the same share, whatever its score
ClassCount_EqualShare(c, max_entities, iScoreSum) ==
    LET newNum == IF max_entities > 0
                  THEN Max(1, IntDiv(max_entities, iScoreSum))
                  ELSE 0
    IN  IF c.maxEntities > 0 /\ newNum > c.maxEntities THEN c.maxEntities ELSE newNum

ClassCount(c, max_entities, iScoreSum) ==
    LET newNum == IF max_entities > 0
                  THEN Max(1, IntDiv(max_entities * c.score, iScoreSum))
                  \* without an image map the average size of a class is infinite
                  \* (size / fImgDensity with fImgDensity 0), so the area share is 0
                  ELSE 0
    IN  IF c.maxEntities > 0 /\ newNum > c.maxEntities THEN c.maxEntities ELSE newNum

RECURSIVE SumCounts(_)
SumCounts(classes) ==
    IF classes = <<>> THEN 0
    ELSE (IF Head(classes).pseudo \/ Head(classes).watch THEN 0 ELSE Head(classes).numEntities)
         + SumCounts(Tail(classes))

ComputeEntityCount(classes, args, bias) ==
    LET max_entities == ScaledMaxEntities(args, bias)
        iScoreSum == IF max_entities > 0 THEN SumScores(classes) ELSE 0
        newClasses == [k \in 1..Len(classes) |->
                         IF classes[k].pseudo \/ classes[k].watch THEN classes[k]
                         ELSE [classes[k] EXCEPT !.numEntities =
                                   ClassCount(classes[k], max_entities, iScoreSum)]]
    IN  [ classes |-> newClasses,
          numEntities |-> IF max_entities > 0 THEN max_entities ELSE SumCounts(newClasses),
          max_entities |-> max_entities, iScoreSum |-> iScoreSum,
          divided |-> max_entities > 0
                      /\ \E k \in 1..Len(classes) : ~(classes[k].pseudo \/ classes[k].watch) ]

(***************************************************************************)
(* Seed::PrepareEntities, the placement of one instance.                   *)
(*                                                                         *)
(* A placement state is the seed of generator 1 (m_iSeed) and the lists    *)
(* m_Entities, SeedEntityBounds and SeedEntityBoxes built so far.  classIdx *)
(* and entity numbers are the C indices (from 0); m_Classes[i] of the code *)
(* is classes[i + 1] here.                                                 *)
(***************************************************************************)

\* The two RandomFloat() calls in the argument list of one constructor call: the
\* order of evaluation is the compiler's.  first and second are the draws in
\* the order they happen; the result is <<value of argument 1, value of argument 2>>.
ArgPair(first, second, args) ==
    IF args.argsRightToLeft THEN <<second, first>> ELSE <<first, second>>

\* box = idBox( m_origin, size, axis ); box.ContainsPoint( SeedEntity.origin )
InsideSeedBox(args, origin) == BoxContainsPoint(idBox(m_origin, args.size, 0), origin)

\* the seeds of generator 1 after 1, 2, ..., n further RandomFloat() calls
RECURSIVE Draws(_, _)
Draws(s, n) ==
    LET Drawn(s1) == <<s1>> \o Draws(s1, n - 1)
    IN  IF n = 0 THEN <<>> ELSE Drawn(NextSeed(s))

\* candidate position by bunching around an already placed entity
BunchCandidate(s1, ents, c, ci, args) ==
    LET distance == ISqrt(c.size[1] * c.size[1] + c.size[2] * c.size[2]) + c.spacing * 2
        numBunch == Cardinality({e \in 1..Len(ents) : ents[e].classIdx = ci})
        \* d: the seeds after the draws for bunchTarget and for the two arguments
        Bunched(d) ==
            LET bunchTarget == Scaled(Mantissa(d[1]), numBunch)
                pr == ArgPair(Mantissa(d[2]), Mantissa(d[3]), args)
                radius == 2 * distance + Scaled(pr[1], distance) \div 3
                polar == PolarToVec3(radius, Scaled(pr[2], 4))
            IN  [seed |-> d[3],
                 origin |-> VAdd(polar, VSub(ents[bunchTarget + 1].origin, m_origin))]
    IN  Bunched(Draws(s1, 3))

\* candidate position for falloff none: a random position in the footprint
RandomCandidate(s1, args) ==
    LET Drawn(d) ==
            LET pr == ArgPair(Mantissa(d[1]), Mantissa(d[2]), args)
            IN  [seed |-> d[2],
                 origin |-> <<Scaled(pr[1], args.size[1]) - args.size[1] \div 2,
                              Scaled(pr[2], args.size[2]) - args.size[2] \div 2, 0>>]
    IN  Drawn(Draws(s1, 2))

Candidate(s0, ents, c, ci, args) ==
    LET haveEnts == Len(ents) > 0
        Chosen(s1) ==
            IF haveEnts /\ Mantissa(s1) < c.bunching * 32768
            THEN BunchCandidate(s1, ents, c, ci, args)
            ELSE RandomCandidate(s1, args)
    IN  Chosen(IF haveEnts THEN NextSeed(s0) ELSE s0)

\* gameLocal.clip.TraceBounds straight down from origin to the bottom of the SEED
\* over flat ground at height args.groundZ: the end position of the trace
FloorTrace(origin, args) ==
    LET traceEndZ == m_origin[3] - args.size[3]
    IN  IF args.hasGround /\ origin[3] >= args.groundZ /\ args.groundZ >= traceEndZ
        THEN <<origin[1], origin[2], args.groundZ>>
        ELSE origin

\* outside the z band of the class?
OutsideZBand(c, z) ==
    IF ~c.z_invert THEN z < c.z_min \/ z > c.z_max
    ELSE z > c.z_min /\ z < c.z_max

\* is the class inhibited by this inhibitor (falloff none)?
InhibitorVerdict(inh, classname) ==
    IF Len(inh.classnames) > 0
    THEN (IF \E k \in 1..Len(inh.classnames) : inh.classnames[k] = classname
          THEN inh.inhibit_only ELSE ~inh.inhibit_only)
    ELSE TRUE

\* the loop over m_Inhibitors: every intersecting inhibitor overwrites "inhibited"
RECURSIVE InhibitLoop(_, _, _, _, _)
InhibitLoop(inhibitors, k, testBox, classname, inhibited) ==
    IF k > Len(inhibitors) THEN inhibited
    ELSE InhibitLoop(inhibitors, k + 1, testBox, classname,
                     IF BoxIntersectsBox(testBox, inhibitors[k].box)
                     THEN InhibitorVerdict(inhibitors[k], classname)
                     ELSE inhibited)

\* use_spacing: the class spacing when it is not 0, else the spacing of the SEED
UseSpacing(c, args) == IF c.spacing # 0 THEN c.spacing ELSE args.spacing

\* bounds for the fast collision check: ( idBounds( size ) + origin ) * axis;
\* idBounds( point ), the one argument constructor, makes the bounds of a
\* single point
EntityBounds(c, origin, mat) ==
    BoundsRotate(BoundsTranslate([lo |-> c.size, hi |-> c.size], origin), mat)

\* box for the thorough collision check: idBox( origin, size, axis )
EntityBox(c, origin, mat) == idBox(origin, c.size, mat)

\* does the candidate collide with an entity placed before?
Collides(c, origin, mat, bnds, boxes, args) ==
    LET use_spacing == UseSpacing(c, args)
        \* the fast check on the bounds, then the thorough check on the boxes
        Hit(test) ==
            \E k \in 1..Len(bnds) :
                /\ BoundsIntersectsBounds(bnds[k], test.testBounds)
                /\ BoxIntersectsBox(boxes[k], test.testBox)
    IN  IF c.nocollide > 0 \/ use_spacing > 0
        THEN Apply(Hit, [testBounds |-> BoundsExpand(EntityBounds(c, origin, mat),
                                                     use_spacing),
                         testBox |-> BoxExpand(EntityBox(c, origin, mat), use_spacing)])
        ELSE FALSE

\* One pass of the body of "while (tries++ < MAX_TRIES)": ok is TRUE when the
\* pass reaches the break, FALSE when it ends in a continue or falls through.
TryPlace(s0, ents, bnds, boxes, classes, ci, inhibitors, args) ==
    LET c == classes[ci + 1]
        useSink == c.sink_min # 0 \/ c.sink_max # 0
        \* the z band, the box of the SEED, the inhibitors and the collisions
        Tested(origin1, sr, origin2, sa3, yaw) ==
            IF OutsideZBand(c, origin1[3])
            THEN [ok |-> FALSE, seed |-> sr, origin |-> origin1, angles |-> 0]
            ELSE [ok |-> /\ InsideSeedBox(args, origin2)
                         /\ ~(IF ~c.noinhibit
                              THEN InhibitLoop(inhibitors, 1,
                                               EntityBox(c, origin2, ToMat3(yaw)),
                                               c.classname, FALSE)
                              ELSE FALSE)
                         /\ ~Collides(c, origin2, ToMat3(yaw), bnds, boxes, args),
                  seed |-> sa3, origin |-> origin2, angles |-> yaw]
        Turned(origin1, sr, origin2, sa) == Tested(origin1, sr, origin2, sa.seed, sa.yaw)
        \* sink and offset; ss is the seed after the draw for the sink, if there is one
        Sunk(origin1, sr, ss, sa) ==
            Turned(origin1, sr,
                   VAdd(<<origin1[1], origin1[2],
                          origin1[3] - (IF useSink
                                        THEN c.sink_min + Scaled(Mantissa(ss),
                                                                 c.sink_max - c.sink_min)
                                        ELSE 0)>>,
                        c.offset),
                   sa)
        \* float r = RandomFloat(); the probability is 1.0 without materials and
        \* image map, so r > probability never holds; then the floor or the z of
        \* the class
        Floored(origin0, sr, ss, sa) ==
            Sunk(IF c.floor THEN FloorTrace(origin0, args)
                 ELSE <<origin0[1], origin0[2], c.origin[3]>>,
                 sr, ss, sa)
        \* the three draws for the angles: pitch and roll have an empty range; yaw
        \* has the second draw in either order
        Angles(d) ==
            [seed |-> d[3],
             yaw |-> args.rotate_min_yaw
                     + (Scaled(Mantissa(d[2]), 4)
                        * (args.rotate_max_yaw - args.rotate_min_yaw)) \div 4]
        \* d: the seeds after the draws of one pass, in their order: the draw for
        \* the probability, the draw for the sink if there is one, the angles
        Drawn(d) ==
            [sr |-> d[1],
             ss |-> IF useSink THEN d[2] ELSE d[1],
             sa |-> Angles(IF useSink THEN SubSeq(d, 3, 5) ELSE SubSeq(d, 2, 4))]
        Placed(cand) ==
            LET Run(d) == Floored(VAdd(Rotate(cand.origin, 0), m_origin), d.sr, d.ss, d.sa)
            IN  Apply(Run, Drawn(Draws(cand.seed, IF useSink THEN 5 ELSE 4)))
    IN  Apply(Placed, Candidate(s0, ents, c, ci, args))

\* "if (tries >= MAX_TRIES) continue;" after the loop: is the found position kept?
PlacementKept(found, tries) == found /\ ~(tries >= MAX_TRIES)

\* while (tries++ < MAX_TRIES) { ... }: t is the value of tries before the test
RECURSIVE TryLoop(_, _, _, _, _, _, _, _, _)
TryLoop(s, t, ents, bnds, boxes, classes, ci, inhibitors, args) ==
    LET Tried(r) ==
            IF r.ok
            THEN [found |-> TRUE, tries |-> t + 1, seed |-> r.seed,
                  origin |-> r.origin, angles |-> r.angles]
            ELSE TryLoop(r.seed, t + 1, ents, bnds, boxes, classes, ci, inhibitors, args)
    IN  IF t < MAX_TRIES
        THEN Tried(TryPlace(s, ents, bnds, boxes, classes, ci, inhibitors, args))
        ELSE [found |-> FALSE, tries |-> t + 1, seed |-> s, origin |-> Zero3, angles |-> 0]

\* color, skin, flags and scale of an accepted instance; returns the entity and the seed
MakeEntity(s0, c, ci, origin, angles) ==
    LET equalAxes == c.scale_min[1] = 0
        Uniform(factor) == <<factor, factor, factor>>
        \* d: the seeds after the draws for the color (3), the skin and the scale
        Made(d) ==
            [seed |-> IF equalAxes THEN d[5] ELSE d[7],
             ent |-> [skinIdx |-> c.skins[Scaled(Mantissa(d[4]), Len(c.skins)) + 1],
                      origin |-> origin, angles |-> angles,
                      color |-> <<Scaled(Mantissa(d[1]), c.color_max[1] - c.color_min[1])
                                      + c.color_min[1],
                                  Scaled(Mantissa(d[2]), c.color_max[2] - c.color_min[2])
                                      + c.color_min[2],
                                  Scaled(Mantissa(d[3]), c.color_max[3] - c.color_min[3])
                                      + c.color_min[3]>>,
                      scale |-> IF equalAxes
                                THEN Uniform(Scaled(Mantissa(d[5]),
                                                    c.scale_max[3] - c.scale_min[3])
                                             + c.scale_min[3])
                                ELSE <<Scaled(Mantissa(d[5]), c.scale_max[1] - c.scale_min[1])
                                           + c.scale_min[1],
                                       Scaled(Mantissa(d[6]), c.scale_max[2] - c.scale_min[2])
                                           + c.scale_min[2],
                                       Scaled(Mantissa(d[7]), c.scale_max[3] - c.scale_min[3])
                                           + c.scale_min[3]>>,
                      flags |-> SEED_ENTITY_HIDDEN, entity |-> 0, classIdx |-> ci]]
    IN  Made(Draws(s0, 7))

\* one pass of the body of "for (int j = 0; j < iEntities; j++)": ps is
\* [seed, ents, bnds, boxes, tmp, tried]; tried keeps, for the properties, how
\* the loop over the tries ended in every pass
InstanceStep(ps, classes, ci, inhibitors, args) ==
    LET c == classes[ci + 1]
        Recorded(r, m) ==
            [seed |-> m.seed,
             ents |-> Append(ps.ents, m.ent),
             bnds |-> Append(ps.bnds, EntityBounds(c, r.origin, ToMat3(r.angles))),
             boxes |-> Append(ps.boxes, EntityBox(c, r.origin, ToMat3(r.angles))),
             tmp |-> m.ent,
             tried |-> Append(ps.tried, [found |-> r.found, tries |-> r.tries,
                                         kept |-> TRUE])]
        Tried(r) ==
            IF ~PlacementKept(r.found, r.tries)
            THEN [ps EXCEPT !.seed = r.seed,
                            !.tmp = [ps.tmp EXCEPT !.origin = r.origin, !.angles = r.angles],
                            !.tried = Append(ps.tried, [found |-> r.found, tries |-> r.tries,
                                                        kept |-> FALSE])]
            ELSE Recorded(r, MakeEntity(r.seed, c, ci, r.origin, r.angles))
    IN  Tried(TryLoop(ps.seed, 0, ps.ents, ps.bnds, ps.boxes, classes, ci, inhibitors, args))

\* for (int j = 0; j < iEntities; j++): the passes j .. iEntities - 1 in their
\* order, computed by halves; once m_Entities has m_iNumEntities entries the
\* loop has ended (the break after the append) and the remaining passes do not run
RECURSIVE InstanceLoop(_, _, _, _, _, _, _, _)
InstanceLoop(j, iEntities, ps, classes, ci, inhibitors, args, numEntities) ==
    IF j >= iEntities \/ Len(ps.ents) >= numEntities THEN ps
    ELSE IF iEntities = j + 1 THEN InstanceStep(ps, classes, ci, inhibitors, args)
    ELSE InstanceLoop((j + iEntities) \div 2, iEntities,
                      InstanceLoop(j, (j + iEntities) \div 2, ps, classes, ci, inhibitors,
                                   args, numEntities),
                      classes, ci, inhibitors, args, numEntities)

\* the number of entities to try for a class
ClassEntities(c) ==
    IF c.maxEntities <= 0 THEN (IF c.numEntities < 0 THEN 0 ELSE c.numEntities)
    ELSE c.maxEntities

\* for (int idx = 0; idx < m_Classes.Num(); idx++) over the shuffled ClassIndex
RECURSIVE ClassLoop(_, _, _, _, _, _, _)
ClassLoop(idx, ClassIndex, ps, classes, inhibitors, args, numEntities) ==
    IF idx >= Len(classes) \/ Len(ps.ents) >= numEntities THEN ps
    ELSE LET ci == ClassIndex[idx + 1]
             c == classes[ci + 1]
         IN  IF c.watch
             THEN ClassLoop(idx + 1, ClassIndex, ps, classes, inhibitors, args, numEntities)
             ELSE ClassLoop(idx + 1, ClassIndex,
                            InstanceLoop(0, ClassEntities(c), [ps EXCEPT !.seed = c.seed],
                                         classes, ci, inhibitors, args, numEntities),
                            classes, inhibitors, args, numEntities)

\* the per class seeds: m_Classes[i].seed = RandomSeed()
RECURSIVE SeedClasses(_, _, _)
SeedClasses(classes, k, s2) ==
    IF k > Len(classes) THEN [classes |-> classes, seed2 |-> s2]
    ELSE LET n2 == NextSeed2(s2)
         IN  SeedClasses([classes EXCEPT ![k].seed = SeedMask(n2)], k + 1, n2)

\* the shuffle of ClassIndex with generator 1
RECURSIVE Shuffle(_, _, _, _)
Shuffle(ClassIndex, i, n, s) ==
    IF i >= n THEN [ClassIndex |-> ClassIndex, seed |-> s]
    ELSE LET s1 == NextSeed(s)
             second == Scaled(Mantissa(s1), n)
         IN  Shuffle([ClassIndex EXCEPT ![i + 1] = ClassIndex[second + 1],
                                        ![second + 1] = ClassIndex[i + 1]],
                     i + 1, n, s1)

\* remove pseudo classes as we start over fresh
RECURSIVE RemovePseudo(_)
RemovePseudo(classes) ==
    IF classes = <<>> THEN <<>>
    ELSE IF Head(classes).pseudo THEN RemovePseudo(Tail(classes))
    ELSE <<Head(classes)>> \o RemovePseudo(Tail(classes))

\* the scan of gameLocal.entities for the brethren of one watch class
RECURSIVE WatchScan(_, _, _, _, _, _, _)
WatchScan(j, ci, c, ents, skins, tmp, st) ==
    IF j >= Len(st.entities) THEN [ents |-> ents, skins |-> skins, tmp |-> tmp]
    ELSE LET ent == st.entities[j + 1]
         IN  IF ent.used /\ ent.defName = c.classname /\ InsideSeedBox(st.args, ent.origin)
             THEN LET e == [tmp EXCEPT !.origin = ent.origin,
                                       !.angles = ToAngles(ent.axis),
                                       !.skinIdx = SkinIndex(skins, ent.skin),
                                       !.flags = SEED_ENTITY_EXISTS + SEED_ENTITY_SPAWNED,
                                       !.entity = j,
                                       !.classIdx = ci]
                  IN  WatchScan(j + 1, ci, c, Append(ents, e), AddSkin(skins, ent.skin), e, st)
             ELSE WatchScan(j + 1, ci, c, ents, skins, tmp, st)

RECURSIVE WatchLoop(_, _, _, _, _, _)
WatchLoop(k, classes, ents, skins, tmp, st) ==
    IF k > Len(classes) THEN [ents |-> ents, skins |-> skins]
    ELSE IF ~classes[k].watch THEN WatchLoop(k + 1, classes, ents, skins, tmp, st)
    ELSE LET r == WatchScan(0, k - 1, classes[k], ents, skins, tmp, st)
         IN  WatchLoop(k + 1, classes, r.ents, r.skins, r.tmp, st)

(***************************************************************************)
(* Seed::CombineEntities.  Table positions are the C indices (from 0).     *)
(***************************************************************************)
\* max_combine_distance, squared
MaxCombineDistance(args) ==
    LET d == IF args.combine_distance < 10 THEN 10 ELSE args.combine_distance
    IN  d * d

\* gameLocal.pvs.GetPVSAreas for the bounds of one entity: the map has two areas,
\* divided by the plane x = args.pvsPlaneX; -1 when the bounds reach into both
EntityPVS(e, classes, args) ==
    LET size == RotExtents(classes[e.classIdx + 1].size, ToMat3(e.angles))
        lo2 == 2 * e.origin[1] - size[1]
        hi2 == 2 * e.origin[1] + size[1]
    IN  IF lo2 <= 2 * args.pvsPlaneX /\ hi2 >= 2 * args.pvsPlaneX THEN -1
        ELSE IF hi2 < 2 * args.pvsPlaneX THEN 0 ELSE 1

\* can entity j be merged into the seed entity i?
MergeCandidate(ents, i, j, pvs, args) ==
    /\ ents[j + 1].classIdx # -1
    /\ ents[j + 1].classIdx = ents[i + 1].classIdx
    /\ ents[j + 1].skinIdx = ents[i + 1].skinIdx
    /\ ~(args.numPVSAreas > 1 /\ pvs[j + 1] # pvs[i + 1])
    /\ ~(LengthSqr(VSub(ents[j + 1].origin, ents[i + 1].origin)) > MaxCombineDistance(args))

\* for (int j = i + 1; j < n; j++): collects the candidates and marks them
RECURSIVE MergeLoop(_, _, _, _, _, _)
MergeLoop(ents, i, j, cand, pvs, args) ==
    IF j >= Len(ents) THEN [ents |-> ents, cand |-> cand]
    ELSE IF MergeCandidate(ents, i, j, pvs, args)
    THEN MergeLoop([ents EXCEPT ![j + 1].classIdx = -ents[j + 1].classIdx],
                   i, j + 1, Append(cand, j), pvs, args)
    ELSE MergeLoop(ents, i, j + 1, cand, pvs, args)

\* the model_ofs_t of entity j relative to the seed entity i; classes without
\* LOD stages have LOD level 0, stored as 1
MakeOffset(ents, i, j) ==
    [offset |-> IF j = i THEN Zero3 ELSE VSub(ents[j + 1].origin, ents[i + 1].origin),
     angles |-> ents[j + 1].angles, color |-> ents[j + 1].color,
     scale |-> ents[j + 1].scale, lod |-> 1, flags |-> 0]

\* variant: the farthest entry first
OffsetBefore_Farthest(ents, i, a, b) ==
    LengthSqr(MakeOffset(ents, i, a).offset) > LengthSqr(MakeOffset(ents, i, b).offset)

\* SortOffsetsByDistance on the entries (table positions) of sortedOffsets
OffsetBefore(ents, i, a, b) ==
    LengthSqr(MakeOffset(ents, i, a).offset) < LengthSqr(MakeOffset(ents, i, b).offset)

\* sortedOffsets.Sort( SortOffsetsByDistance ): qsort, entries of equal distance
\* come out in the order the C library leaves them in (args.sortTiesReversed)
RECURSIVE SortOffsets(_, _, _, _)
SortOffsets(ents, i, list, args) ==
    IF list = <<>> THEN <<>>
    ELSE LET pos == 1..Len(list)
             least == {p \in pos : \A q \in pos : ~OffsetBefore(ents, i, list[q], list[p])}
             pick == IF args.sortTiesReversed
                     THEN CHOOSE p \in least : \A q \in least : q <= p
                     ELSE CHOOSE p \in least : \A q \in least : q >= p
             rest == [k \in 1..(Len(list) - 1) |-> IF k < pick THEN list[k] ELSE list[k + 1]]
         IN  <<list[pick]>> \o SortOffsets(ents, i, rest, args)

\* variant: the entries that are cut off keep the negated class index
RestoreClassIdx_Negated(ents, list, si) == ents

\* restore the class index of the entries after the first maxModelCount
RECURSIVE RestoreClassIdx(_, _, _)
RestoreClassIdx(ents, list, si) ==
    IF si > Len(list) THEN ents
    ELSE RestoreClassIdx([ents EXCEPT ![list[si] + 1].classIdx = -ents[list[si] + 1].classIdx],
                         list, si + 1)

\* variant: the merged entities are not marked
MarkCombined_Unmarked(ents, list, d) == ents

\* mark all entities that will be merged as deleted
RECURSIVE MarkCombined(_, _, _)
MarkCombined(ents, list, d) ==
    IF d > Len(list) THEN ents
    ELSE MarkCombined([ents EXCEPT ![list[d] + 1].classIdx = -1], list, d + 1)

\* is the list of entries cut to the first maxModelCount?
TooManyMerged(merged, maxModelCount) == merged > maxModelCount

\* the value of a variable or field that the code reads or copies without ever
\* assigning it; TLC stops if an operation ever computes or branches with it
Indeterminate == "indeterminate"

\* the pseudo class of a composite; the code assigns only some of the fields
PseudoClass(c, offsets) ==
    [ classname |-> FUNC_DUMMY, modelname |-> c.modelname,
      pseudo |-> TRUE, watch |-> Indeterminate,
      solid |-> c.solid, nocombine |-> Indeterminate,
      clip |-> c.clip, clipModels |-> <<>>,
      hasPhysicsObj |-> TRUE, score |-> 0, skins |-> <<>>,
      origin |-> Indeterminate, offset |-> c.offset,
      floor |-> Indeterminate, noinhibit |-> Indeterminate,
      spacing |-> Indeterminate,
      sink_min |-> Indeterminate, sink_max |-> Indeterminate,
      scale_min |-> Indeterminate, scale_max |-> Indeterminate,
      bunching |-> Indeterminate, nocollide |-> Indeterminate,
      size |-> c.size,
      cullDist |-> c.cullDist, spawnDist |-> c.spawnDist,
      color_min |-> Indeterminate, color_max |-> Indeterminate,
      z_invert |-> Indeterminate, z_min |-> Indeterminate, z_max |-> Indeterminate,
      z_fadein |-> Indeterminate, z_fadeout |-> Indeterminate,
      moveable |-> FALSE,
      maxEntities |-> 0, numEntities |-> 0,
      seed |-> Indeterminate, offsets |-> offsets ]

\* the clip models of the physics object of a composite, by their id (from 0):
\* the position in the table of the entity that each was set for.
\* SetClipModelForMulti is true when the clip model is there, as a copy of the
\* clip model of the class or loaded from the model of the class
ClipModels(c, i, kept, args) ==
    LET clipLoaded == c.solid /\ (c.clip \/ c.modelname \notin args.missingClips)
    IN  IF clipLoaded
        THEN <<i>> \o [d \in 1..Len(kept) |-> kept[d]]
        ELSE <<>>

\* variant: the list holds the records of the merged entities only
BuildOffsets_MergedOnly(ents, i, kept) ==
    [k \in 1..(Len(kept) - 1) |-> MakeOffset(ents, i, kept[k + 1])]

\* build the offsets list: one record for every entry of sortedOffsets
BuildOffsets(ents, i, kept) ==
    [k \in 1..Len(kept) |-> MakeOffset(ents, i, kept[k])]

\* one pass of "for (int i = 0; i < n - 1; i++)": cs is [ents, classes, merges,
\* mergedCount]; merges keeps, for the properties, what each seed entity merged
CombineOne(cs, i, pvs, args) ==
    LET e == cs.ents[i + 1]
        entityClass == cs.classes[e.classIdx + 1]
        maxModelCount == args.maxModelCount
        \* the pseudo class with the offsets of the kept entries, and the seed
        \* entity as its only instance
        Flagged(m, kept, final) ==
            [ents |-> final,
             classes |-> Append(cs.classes,
                                [PseudoClass(entityClass, BuildOffsets(cs.ents, i, kept))
                                    EXCEPT !.clipModels =
                                               ClipModels(entityClass, i, kept, args)]),
             merges |-> Append(cs.merges,
                               [seed |-> i, cand |-> m.cand, kept |-> kept,
                                maxModelCount |-> maxModelCount,
                                idxBefore |-> [k \in 1..Len(cs.ents) |-> cs.ents[k].classIdx],
                                idxAfter |-> [k \in 1..Len(final) |-> final[k].classIdx]]),
             mergedCount |-> cs.mergedCount + Len(m.cand)]
        Marked(m, kept, marked) ==
            Flagged(m, kept, [marked EXCEPT ![i + 1].classIdx = Len(cs.classes),
                                            ![i + 1].flags = e.flags + SEED_ENTITY_PSEUDO,
                                            ![i + 1].angles = 0])
        Kept(m, kept, restored) == Marked(m, kept, MarkCombined(restored, kept, 1))
        \* merged > maxModelCount: sort, restore the class index of the rest, truncate
        Sorted(m, sorted) ==
            Kept(m, SubSeq(sorted, 1, maxModelCount),
                 RestoreClassIdx(m.ents, sorted, maxModelCount + 1))
        Merged(m) ==
            IF Len(m.cand) = 0 THEN cs
            ELSE IF TooManyMerged(Len(m.cand), maxModelCount)
            THEN Sorted(m, SortOffsets(cs.ents, i, <<i>> \o m.cand, args))
            ELSE Kept(m, <<i>> \o m.cand, m.ents)
    \* renderModelManager->FindModel finds no model for an empty name
    IN  IF e.classIdx < 0 \/ entityClass.nocombine \/ entityClass.modelname = ""
        THEN cs
        ELSE Merged(MergeLoop(cs.ents, i, i + 1, <<>>, pvs, args))

RECURSIVE CombineLoop(_, _, _, _)
CombineLoop(cs, i, pvs, args) ==
    IF i >= Len(cs.ents) - 1 THEN cs
    ELSE CombineLoop(CombineOne(cs, i, pvs, args), i + 1, pvs, args)

\* delete all entities that got merged
Compact(ents) ==
    LET Kept(e) == e.classIdx # -1
    IN  SelectSeq(ents, Kept)

CombineEntities(ents, classes, combine, args) ==
    LET pvs == [k \in 1..Len(ents) |-> EntityPVS(ents[k], classes, args)]
        Compacted(cs) ==
            [ents |-> IF cs.mergedCount > 0 THEN Compact(cs.ents) ELSE cs.ents,
             classes |-> cs.classes, merges |-> cs.merges]
    IN  IF ~combine
        THEN [ents |-> ents, classes |-> classes, merges |-> <<>>]
        ELSE Compacted(CombineLoop([ents |-> ents, classes |-> classes, merges |-> <<>>,
                                    mergedCount |-> 0], 0, pvs, args))

(***************************************************************************)
(* Seed::PrepareEntities as a whole: from the working seed m_iSeed_2, the  *)
(* class table, the inhibitors and m_iNumEntities to the new tables.       *)
(* world is gameLocal.entities.                                            *)
(***************************************************************************)
PrepareEntities(seed2, classes0, inhibitors, skins, numEntities, combine, world, args) ==
    LET tmp0 == [skinIdx |-> Indeterminate, origin |-> Indeterminate,
                 angles |-> Indeterminate, color |-> Indeterminate,
                 scale |-> Indeterminate, flags |-> Indeterminate,
                 entity |-> Indeterminate, classIdx |-> Indeterminate]
        Combined(s2, ps, w, cmb) ==
            [ m_iSeed |-> ps.seed, m_iSeed_2 |-> s2,
              m_Classes |-> cmb.classes, m_Entities |-> cmb.ents, m_Skins |-> w.skins,
              placed |-> ps.ents, tried |-> ps.tried, scanned |-> w.ents,
              merges |-> cmb.merges ]
        \* the instances of the watched brethren, then CombineEntities
        Watched(s2, classes, ps, w) ==
            Combined(s2, ps, w, CombineEntities(w.ents, classes, combine, args))
        Generated(s2, classes, ps) ==
            Watched(s2, classes, ps,
                    WatchLoop(1, classes, ps.ents, skins, ps.tmp,
                              [entities |-> world, args |-> args]))
        \* the loop over the classes in the shuffled order
        Shuffled(s2, classes, sh) ==
            Generated(s2, classes,
                      ClassLoop(0, sh.ClassIndex,
                                [seed |-> sh.seed, ents |-> <<>>, bnds |-> <<>>,
                                 boxes |-> <<>>, tmp |-> tmp0, tried |-> <<>>],
                                classes, inhibitors, args, numEntities))
        \* m_iSeed = RandomSeed(), then the shuffle
        Seeded(classes, s2) ==
            Shuffled(s2, classes,
                     Shuffle([k \in 1..Len(classes) |-> k - 1], 0, Len(classes),
                             SeedMask(s2)))
        Cleared(sc) == Seeded(sc.classes, NextSeed2(sc.seed2))
    IN  Cleared(SeedClasses(RemovePseudo(classes0), 1, seed2))

(***************************************************************************)
(* The host: gameLocal.entities is a table of slots; slot 0 is the player. *)
(* A slot holds a live object or is free (used = FALSE).  An object whose  *)
(* EV_Remove is posted stays in its slot until the events are serviced.    *)
(***************************************************************************)
NoEntity ==
    [used |-> FALSE, defName |-> "", origin |-> Zero3, axis |-> 0, skin |-> "",
     removing |-> FALSE, bySeed |-> FALSE, offsets |-> <<>>, impulse |-> FALSE]

LiveEntity(defName, origin, axis, skin) ==
    [NoEntity EXCEPT !.used = TRUE, !.defName = defName, !.origin = origin,
                     !.axis = axis, !.skin = skin]

\* gameLocal.SpawnEntityDef registers the new object in the first free slot
FirstFree(world) ==
    IF \E k \in 1..Len(world) : ~world[k].used
    THEN (CHOOSE k \in 1..Len(world) : ~world[k].used /\ \A j \in 1..(k - 1) : world[j].used) - 1
    ELSE -1

\* idEvent::ServiceEvents for the posted EV_Remove / EV_SafeRemove events
ServiceRemove(world) ==
    [k \in 1..Len(world) |-> IF world[k].used /\ world[k].removing THEN NoEntity ELSE world[k]]

(***************************************************************************)
(* Seed::SpawnEntity.  s is the record of the Seed object and the host;    *)
(* the result is the new record and the return value.                      *)
(***************************************************************************)
\* the transform handed to the new object: "origin" spawnarg and SetAxis
SpawnOrigin(ent) == ent.origin
SpawnAxis(ent) == ToMat3(ent.angles)

\* ent->flags after a spawn: preserve PSEUDO flag
SpawnedFlags(flags) ==
    SEED_ENTITY_SPAWNED + SEED_ENTITY_EXISTS + BitAnd(flags, SEED_ENTITY_PSEUDO)

\* history: a spawn of an instance that was culled before completes a round trip
RoundTrip(log, idx, obj, ent) ==
    LET mine == {q \in log.pending : q.idx = idx}
        p == CHOOSE q \in mine : TRUE
    IN  IF mine = {} THEN log
        ELSE [pending |-> log.pending \ mine,
              last |-> [done |-> TRUE,
                        before |-> [objOrigin |-> p.objOrigin, objAxis |-> p.objAxis,
                                    origin |-> p.origin, angles |-> p.angles],
                        after |-> [objOrigin |-> obj.origin, objAxis |-> obj.axis,
                                   origin |-> ent.origin, angles |-> ent.angles]]]

\* variant: a spawn that fails has counted the entity already
SpawnFailed_Counted(s) ==
    [s |-> [s EXCEPT !.m_iNumExisting = s.m_iNumExisting + 1], ok |-> FALSE]

\* "return false": the object and the host are as they were
SpawnFailed(s) == [s |-> s, ok |-> FALSE]

SpawnEntity(s, idx, managed) ==
    LET ent == s.m_Entities[idx + 1]
        lclass == s.m_Classes[ent.classIdx + 1]
        slot == FirstFree(s.entities)
        isDummy == lclass.pseudo \/ lclass.classname = FUNC_DUMMY
        firstImpulse == ~isDummy /\ lclass.moveable /\ BitAnd(ent.flags, SEED_ENTITY_SPAWNED) = 0
        obj == [LiveEntity(lclass.classname, SpawnOrigin(ent), SpawnAxis(ent),
                           s.m_Skins[ent.skinIdx + 1])
                EXCEPT !.bySeed = TRUE,
                       !.offsets = IF lclass.pseudo THEN lclass.offsets ELSE <<>>,
                       !.impulse = firstImpulse]
    IN  IF s.hostSpawn = "limit" THEN SpawnFailed(s)
        ELSE IF lclass.classname \in s.spawnArgs.missingDefs THEN SpawnFailed(s)
        ELSE IF s.hostSpawn = "none" \/ slot < 0 THEN SpawnFailed(s)
        ELSE [ok |-> TRUE,
              s |-> [s EXCEPT
                       !.entities[slot + 1] = obj,
                       !.m_Entities[idx + 1].entity = slot,
                       !.m_Entities[idx + 1].flags = SpawnedFlags(ent.flags),
                       !.m_iNumExisting = s.m_iNumExisting + 1,
                       !.m_iNumVisible = s.m_iNumVisible + 1,
                       !.m_iNumStaticMulties =
                            IF lclass.pseudo THEN s.m_iNumStaticMulties + 1
                            ELSE s.m_iNumStaticMulties,
                       !.m_iSeed = IF firstImpulse
                                   THEN NextSeed(NextSeed(NextSeed(s.m_iSeed)))
                                   ELSE s.m_iSeed,
                       !.cullLog = RoundTrip(s.cullLog, idx, obj, ent)]]

(***************************************************************************)
(* Seed::CullEntity                                                        *)
(***************************************************************************)
\* ent->flags += SEED_ENTITY_HIDDEN; ent->flags &= (! SEED_ENTITY_EXISTS);
CulledFlags(flags) ==
    BitAnd(flags + SEED_ENTITY_HIDDEN, LogicalNot(SEED_ENTITY_EXISTS))

\* the position and angles saved from the live object before it is removed
CullOrigin(obj) == obj.origin

\* variant: the angles of the live object are not read
CullAngles_Forgotten(obj) == 0

CullAngles(obj) == ToAngles(obj.axis)

CullEntity(s, idx) ==
    LET ent == s.m_Entities[idx + 1]
        lclass == s.m_Classes[ent.classIdx + 1]
        ent2 == s.entities[ent.entity + 1]
        snap == [idx |-> idx, objOrigin |-> ent2.origin, objAxis |-> ent2.axis,
                 origin |-> ent.origin, angles |-> ent.angles]
    IN  IF BitAnd(ent.flags, SEED_ENTITY_EXISTS) = 0 THEN [s |-> s, ok |-> FALSE]
        ELSE IF ~ent2.used THEN [s |-> s, ok |-> FALSE]
        ELSE [ok |-> TRUE,
              s |-> [s EXCEPT
                       !.m_Entities[idx + 1].origin = CullOrigin(ent2),
                       !.m_Entities[idx + 1].angles = CullAngles(ent2),
                       !.m_Entities[idx + 1].flags = CulledFlags(ent.flags),
                       !.m_Entities[idx + 1].entity = 0,
                       !.m_iNumStaticMulties =
                            IF lclass.pseudo THEN s.m_iNumStaticMulties - 1
                            ELSE s.m_iNumStaticMulties,
                       !.m_iNumExisting = s.m_iNumExisting - 1,
                       !.m_iNumVisible = s.m_iNumVisible - 1,
                       !.entities[ent.entity + 1].removing = TRUE,
                       !.cullLog.pending =
                            {p \in s.cullLog.pending : p.idx # idx} \cup {snap}]]

(***************************************************************************)
(* Seed::Event_CullAll                                                     *)
(***************************************************************************)
\* for (int i = 0; i < m_Entities.Num(); i++) CullEntity( i ): the passes
\* i .. n - 1 in their order, computed by halves
RECURSIVE CullLoop(_, _, _)
CullLoop(s, i, n) ==
    IF i >= Len(s.m_Entities) \/ i >= n THEN s
    ELSE IF n = i + 1 THEN CullEntity(s, i).s
    ELSE CullLoop(CullLoop(s, i, (i + n) \div 2), (i + n) \div 2, n)

Event_CullAll(s) ==
    [CullLoop(s, 0, Len(s.m_Entities)) EXCEPT !.m_iNumStaticMulties = 0,
                                              !.m_iNumExisting = 0,
                                              !.m_iNumVisible = 0]

(***************************************************************************)
(* Seed::Prepare                                                           *)
(***************************************************************************)
\* the seed_inhibitor_t of a target of class atdm:no_seed
MakeInhibitor(t) ==
    LET inhibit_only == t.inhibit # <<>>
    IN  [origin |-> t.origin, size |-> t.size,
         box |-> idBox(t.origin, <<t.size[1] \div 2, t.size[2] \div 2, t.size[3] \div 2>>, 0),
         falloff |-> 0, inhibit_only |-> inhibit_only,
         classnames |-> IF inhibit_only THEN t.inhibit ELSE t.noinhibit]

\* the loop over the targets: acc is [classes, inhibitors, skins]
RECURSIVE GatherTargets(_, _, _, _, _)
GatherTargets(tgts, k, acc, args, combine) ==
    IF k > Len(tgts) THEN acc
    ELSE LET t == tgts[k]
         IN  IF t.defName = "atdm:no_seed"
             THEN GatherTargets(tgts, k + 1,
                                [acc EXCEPT !.inhibitors = Append(acc.inhibitors, MakeInhibitor(t))],
                                args, combine)
             ELSE LET r == AddClassFromEntity(t, t.seed_watch_brethren, args, acc.skins, combine)
                  IN  GatherTargets(tgts, k + 1,
                                    [acc EXCEPT !.classes = Append(acc.classes, r.class),
                                                !.skins = r.skins],
                                    args, combine)

\* the class table as PrepareEntities reads it: composite classes are removed
\* and the per class seed is overwritten before anything reads them
ReadClasses(classes) ==
    LET real == RemovePseudo(classes)
    IN  [k \in 1..Len(real) |-> [real[k] EXCEPT !.seed = 0]]

\* the handles of the live objects among the instances of a table
LiveHandles(ents, world) ==
    {ents[k].entity : k \in {j \in 1..Len(ents) :
                                 /\ HasFlag(ents[j], SEED_ENTITY_EXISTS)
                                 /\ world[ents[j].entity + 1].used}}

\* the call of PrepareEntities on the object and the host.  prepLog keeps the
\* input and the placed instances of every run, lastPrep the details of this run
CallPrepareEntities(s) ==
    LET key == [seed2 |-> s.m_iSeed_2, classes |-> ReadClasses(s.m_Classes),
                inhibitors |-> s.m_Inhibitors, numEntities |-> s.m_iNumEntities]
        Called(r) ==
            [s EXCEPT !.m_iSeed = r.m_iSeed, !.m_iSeed_2 = r.m_iSeed_2,
                      !.m_Classes = r.m_Classes, !.m_Entities = r.m_Entities,
                      !.m_Skins = r.m_Skins,
                      !.m_iNumExisting = 0, !.m_iNumVisible = 0,
                      !.prepLog = s.prepLog \cup {[key |-> key, placed |-> r.placed]},
                      !.lastPrep = [ran |-> TRUE,
                                    again |-> \E q \in s.prepLog : q.key = key,
                                    seed2 |-> s.m_iSeed_2, orgSeed |-> s.m_iOrgSeed,
                                    classes |-> ReadClasses(s.m_Classes),
                                    placed |-> r.placed, tried |-> r.tried,
                                    scanned |-> r.scanned,
                                    merges |-> r.merges,
                                    handles |-> LiveHandles(r.scanned, s.entities),
                                    handlesAfter |-> LiveHandles(r.m_Entities, s.entities)],
                      !.cullLog.pending = {}]
    IN  Called(PrepareEntities(s.m_iSeed_2, s.m_Classes, s.m_Inhibitors, s.m_Skins,
                               s.m_iNumEntities, s.m_bCombine, s.entities, s.spawnArgs))

\* spawn all entities as unmanaged (the "remove" spawnarg)
RECURSIVE SpawnAll(_, _, _)
SpawnAll(s, i, n) ==
    IF i >= Len(s.m_Entities) \/ i >= n THEN s
    ELSE IF n = i + 1 THEN SpawnEntity(s, i, FALSE).s
    ELSE SpawnAll(SpawnAll(s, i, (i + n) \div 2), (i + n) \div 2, n)

\* post EV_SafeRemove to all targets
RemoveTargets(world, tgts) ==
    [k \in 1..Len(world) |->
        IF world[k].used /\ \E t \in 1..Len(tgts) : tgts[t].slot = k - 1
        THEN [world[k] EXCEPT !.removing = TRUE] ELSE world[k]]

\* the call of ComputeEntityCount on the object; countLog keeps what it divided by
CallComputeEntityCount(s) ==
    LET Counted(cnt) ==
            [s EXCEPT !.m_Classes = cnt.classes, !.m_iNumEntities = cnt.numEntities,
                      !.countLog = [called |-> TRUE, bias |-> s.cv_lod_bias,
                                    max_entities |-> cnt.max_entities,
                                    iScoreSum |-> cnt.iScoreSum, divided |-> cnt.divided]]
    IN  Counted(ComputeEntityCount(s.m_Classes, s.spawnArgs, s.cv_lod_bias))

Prepare(s) ==
    LET \* the "remove" mode, or the end of the preparation
        Finished(s3) ==
            IF s.spawnArgs.remove
            THEN (IF s3.m_iNumStaticMulties > 0 THEN s3
                  ELSE [SpawnAll(s3, 0, Len(s3.m_Entities)) EXCEPT !.m_Classes = <<>>, !.m_Entities = <<>>,
                                               !.m_iNumEntities = -1, !.active = FALSE,
                                               !.thinkFlag = FALSE])
            ELSE IF Len(s3.m_Entities) = 0
            THEN [s3 EXCEPT !.m_bPrepared = TRUE, !.thinkFlag = FALSE, !.m_iNumEntities = -1]
            ELSE [s3 EXCEPT !.m_bPrepared = TRUE]
        \* remove all our targets from the game
        Placed(s2) ==
            Finished([s2 EXCEPT !.entities = RemoveTargets(s2.entities, s.targets),
                                !.targets = <<>>])
        \* the seed from the "randseed" spawnarg
        Counted(sc) ==
            [sc EXCEPT !.m_iSeed_2 = s.spawnArgs.randseed, !.m_iOrgSeed = s.spawnArgs.randseed]
        Clamped(c1) == IF c1.m_iNumEntities <= 0 THEN [c1 EXCEPT !.m_iNumEntities = 0] ELSE c1
        Gathered(g, s0) ==
            Counted(IF Len(g.classes) > 0 THEN Clamped(CallComputeEntityCount(s0)) ELSE s0)
        Targets(g) ==
            Gathered(g, [s EXCEPT !.m_Classes = g.classes, !.m_Inhibitors = g.inhibitors,
                                  !.m_Skins = g.skins])
        \* the targets, the entity count and the seed, then PrepareEntities
    IN  Apply(Placed,
              CallPrepareEntities(
                  Targets(GatherTargets(s.targets, 1,
                                        [classes |-> <<>>, inhibitors |-> <<>>,
                                         skins |-> s.m_Skins],
                                        s.spawnArgs, s.m_bCombine))))

(***************************************************************************)
(* Seed::Save and Seed::Restore.  The savefile is the sequence of values   *)
(* that Save writes, as a record of the fields they come from.             *)
(***************************************************************************)
\* no savefile has been written
NoFile == [written |-> FALSE]

\* the fields of a seed_entity_t that the loop over m_Entities writes
SaveEntity(e) ==
    [skinIdx |-> e.skinIdx, origin |-> e.origin, angles |-> e.angles, color |-> e.color,
     flags |-> e.flags, entity |-> e.entity, classIdx |-> e.classIdx]

\* the fields of a seed_class_t that the loop over m_Classes does not write
ClassNotSaved == {"seed", "offsets"}

SaveClass(c) == [f \in DOMAIN c \ ClassNotSaved |-> c[f]]

Save(s) ==
    [active |-> s.active, m_bWaitForTrigger |-> s.m_bWaitForTrigger,
     m_bCombine |-> s.m_bCombine,
     m_iSeed |-> s.m_iSeed, m_iSeed_2 |-> s.m_iSeed_2, m_iOrgSeed |-> s.m_iOrgSeed,
     m_iNumEntities |-> s.m_iNumEntities, m_iNumExisting |-> s.m_iNumExisting,
     m_iNumVisible |-> s.m_iNumVisible, m_iThinkCounter |-> s.m_iThinkCounter,
     m_fLODBias |-> s.m_fLODBias, sinceDistCheck |-> s.sinceDistCheck,
     m_iNumStaticMulties |-> s.m_iNumStaticMulties,
     m_Entities |-> [k \in 1..Len(s.m_Entities) |-> SaveEntity(s.m_Entities[k])],
     m_Classes |-> [k \in 1..Len(s.m_Classes) |-> SaveClass(s.m_Classes[k])],
     m_Inhibitors |-> s.m_Inhibitors, m_Skins |-> s.m_Skins]

\* m_Entities.SetNum( num ), then the fields that are read; no statement
\* assigns the scale, which keeps what the new memory holds
RestoreEntity(e, memory) ==
    [skinIdx |-> e.skinIdx, origin |-> e.origin, angles |-> e.angles, color |-> e.color,
     scale |-> memory, flags |-> e.flags, entity |-> e.entity, classIdx |-> e.classIdx]

\* m_Classes.SetNum( numClasses ), then the fields that are read: the list of
\* offsets is a new, empty list and the seed is not assigned
RestoreClass(c) ==
    [f \in DOMAIN c \cup ClassNotSaved |->
        IF f = "seed" THEN Indeterminate ELSE IF f = "offsets" THEN <<>> ELSE c[f]]

\* s is the object as the constructor left it, f the savefile
Restore(s, f, memory) ==
    [s EXCEPT !.active = f.active, !.m_bWaitForTrigger = f.m_bWaitForTrigger,
              !.m_bCombine = f.m_bCombine,
              !.m_iSeed = f.m_iSeed, !.m_iSeed_2 = f.m_iSeed_2, !.m_iOrgSeed = f.m_iOrgSeed,
              !.m_iNumEntities = f.m_iNumEntities, !.m_iNumExisting = f.m_iNumExisting,
              !.m_iNumVisible = f.m_iNumVisible, !.m_iThinkCounter = f.m_iThinkCounter,
              !.m_fLODBias = f.m_fLODBias, !.sinceDistCheck = f.sinceDistCheck,
              !.m_iNumStaticMulties = f.m_iNumStaticMulties,
              !.m_bRestoreLOD = TRUE,
              !.m_Entities = [k \in 1..Len(f.m_Entities) |->
                                  RestoreEntity(f.m_Entities[k], memory)],
              !.m_Classes = [k \in 1..Len(f.m_Classes) |-> RestoreClass(f.m_Classes[k])],
              !.m_Inhibitors = f.m_Inhibitors, !.m_Skins = f.m_Skins]

\* Seed::Seed: the values of the members of a new object
Constructed(s) ==
    [s EXCEPT !.active = FALSE, !.m_iSeed = 3, !.m_iSeed_2 = 7, !.m_iOrgSeed = 7,
              !.m_fLODBias = 0, !.m_bWaitForTrigger = FALSE, !.m_bPrepared = FALSE,
              !.m_Entities = <<>>, !.m_Classes = <<>>, !.m_Inhibitors = <<>>,
              !.m_iNumStaticMulties = 0, !.m_bRestoreLOD = FALSE, !.m_bCombine = TRUE,
              !.m_Skins = <<"">>, !.m_iNumEntities = 0, !.m_iNumExisting = 0,
              !.m_iNumVisible = 0, !.m_iThinkCounter = 0, !.sinceDistCheck = 0]

(***************************************************************************)
(* Seed::Think                                                             *)
(***************************************************************************)
\* idMath::Fabs( cv_lod_bias - m_fLODBias ) > 0.1, the bias in hundredths
BiasChanged(cv, stored) == Abs(cv - stored) > 10

\* variant: every change of the bias computes the distribution anew
Recompute_Always(cur_entities, numEntities) == TRUE

\* "if (cur_entities != m_iNumEntities)": is the distribution computed anew?
Recompute(cur_entities, numEntities) == cur_entities # numEntities

\* variant: the recomputation goes on with the working seed as it is
RestartSeed_Continue(s) == s.m_iSeed_2

\* the seed PrepareEntities starts from in the recomputation
RestartSeed(s) == s.m_iOrgSeed

\* the block "GUI setting changed?"; the result has the number of cycles run
BiasBlock(s) ==
    LET Counted(s1) ==
            IF Recompute(s.m_iNumEntities, s1.m_iNumEntities)
            THEN [s |-> [CallPrepareEntities([Event_CullAll(s1)
                                              EXCEPT !.m_iSeed_2 = RestartSeed(s1)])
                         EXCEPT !.m_fLODBias = s.cv_lod_bias],
                  differed |-> TRUE, cycles |-> 1]
            ELSE [s |-> [s1 EXCEPT !.m_fLODBias = s.cv_lod_bias],
                  differed |-> TRUE, cycles |-> 0]
    IN  IF ~BiasChanged(s.cv_lod_bias, s.m_fLODBias)
        THEN [s |-> s, differed |-> FALSE, cycles |-> 0]
        ELSE Counted(CallComputeEntityCount(s))

\* After Restore(): SetLODData for the objects of the composite classes
RECURSIVE RestoreLOD(_, _)
RestoreLOD(s, i) ==
    IF i >= Len(s.m_Entities) THEN s
    ELSE LET ent == s.m_Entities[i + 1]
             lclass == s.m_Classes[ent.classIdx + 1]
         IN  IF lclass.pseudo /\ s.entities[ent.entity + 1].used
             THEN RestoreLOD([s EXCEPT !.entities[ent.entity + 1].offsets = lclass.offsets],
                             i + 1)
             ELSE RestoreLOD(s, i + 1)

\* variant: the cull test passes at any distance
DeltaAbove_Anywhere(delta, bias, dist) == TRUE

\* deltaSq < dist, with deltaSq = delta.LengthSqr() / (lodBias * lodBias)
DeltaBelow(delta, bias, dist) == LengthSqr(delta) * 10000 < dist * bias * bias
DeltaAbove(delta, bias, dist) == LengthSqr(delta) * 10000 > dist * bias * bias

\* the distance check for entity i: d is [s, spawned, culled, tried, failed];
\* tried and failed keep, for the properties, the entities that SpawnEntity
\* was called for and those it returned false for
DistanceStep(d, i) ==
    LET s == d.s
        ent == s.m_Entities[i + 1]
        lclass == s.m_Classes[ent.classIdx + 1]
        delta == VSub(s.playerOrigin, ent.origin)
        Spawned(r) ==
            [s |-> r.s, spawned |-> IF r.ok THEN d.spawned + 1 ELSE d.spawned,
             culled |-> d.culled, tried |-> d.tried \cup {i},
             failed |-> IF r.ok THEN d.failed ELSE d.failed \cup {i}]
        Culled(r) ==
            [s |-> r.s, spawned |-> d.spawned,
             culled |-> IF r.ok THEN d.culled + 1 ELSE d.culled,
             tried |-> d.tried, failed |-> d.failed]
    IN  IF BitAnd(ent.flags, SEED_ENTITY_EXISTS) = 0
           /\ (lclass.spawnDist = 0 \/ DeltaBelow(delta, s.cv_lod_bias, lclass.spawnDist))
        THEN Spawned(SpawnEntity(s, i, ~lclass.pseudo))
        ELSE IF BitAnd(ent.flags, SEED_ENTITY_EXISTS) # 0 /\ lclass.cullDist > 0
                /\ DeltaAbove(delta, s.cv_lod_bias, lclass.cullDist)
        THEN Culled(CullEntity(s, i))
        ELSE d

\* for each of our entities, do the distance check: the passes i .. numEntities - 1
\* in their order, computed by halves; numEntities is m_Entities.Num()
RECURSIVE DistanceLoop(_, _, _)
DistanceLoop(d, i, numEntities) ==
    IF i >= Len(d.s.m_Entities) \/ i >= numEntities THEN d
    ELSE IF numEntities = i + 1 THEN DistanceStep(d, i)
    ELSE DistanceLoop(DistanceLoop(d, i, (i + numEntities) \div 2),
                      (i + numEntities) \div 2, numEntities)

\* variant: outside the player PVS the check is skipped however often
OutsidePVS_Unbounded(s) == ~s.inPVS

\* "are we outside the player PVS?", with the think counter not high enough
OutsidePVS(s) == s.m_iThinkCounter < 20 /\ ~s.inPVS

\* the block "Distance dependence checks"
DistanceBlock(s) ==
    LET s1 == [s EXCEPT !.sinceDistCheck = 0]
        Run(d) == [s |-> d.s, pass |-> "run", spawned |-> d.spawned, culled |-> d.culled,
                   tried |-> d.tried, failed |-> d.failed]
    IN  IF ~(s.sinceDistCheck > s.spawnArgs.dist_check_interval)
        THEN [s |-> s, pass |-> "none", spawned |-> 0, culled |-> 0,
              tried |-> {}, failed |-> {}]
        ELSE IF OutsidePVS(s)
        THEN [s |-> [s1 EXCEPT !.m_iThinkCounter = s.m_iThinkCounter + 1],
              pass |-> "skipped", spawned |-> 0, culled |-> 0,
              tried |-> {}, failed |-> {}]
        ELSE Run(DistanceLoop([s |-> [s1 EXCEPT !.m_iThinkCounter = 0],
                               spawned |-> 0, culled |-> 0, tried |-> {}, failed |-> {}],
                              0, Len(s1.m_Entities)))

\* the whole handler; lastThink records what this call did
ThinkBody(s) ==
    LET \* history: the handles that the block "After Restore()" passes on
        Relinked(s2) ==
            IF s2.m_bRestoreLOD /\ s2.m_iNumStaticMulties > 0
            THEN {s2.m_Entities[k].entity :
                      k \in {j \in 1..Len(s2.m_Entities) :
                                 s2.m_Classes[s2.m_Entities[j].classIdx + 1].pseudo}}
            ELSE {}
        Checked(s1, b, d) ==
            [d.s EXCEPT !.lastThink = [ran |-> TRUE, differed |-> b.differed,
                                       cycles |-> b.cycles,
                                       oldCount |-> s1.m_iNumEntities,
                                       newCount |-> b.s.m_iNumEntities,
                                       failed |-> IF d.pass = "run" THEN d.failed
                                                  ELSE IF b.differed THEN {}
                                                  ELSE s.lastThink.failed,
                                       retried |-> IF b.differed THEN {}
                                                   ELSE d.tried \cap s.lastThink.failed,
                                       forced |-> d.pass = "run" /\ ~s.inPVS],
                        !.loadLog = IF s.loadLog.loads = 0 THEN s.loadLog
                                    ELSE [s.loadLog EXCEPT !.thinks = Min(@ + 1, 2),
                                                           !.prepared = ~s.m_bPrepared,
                                                           !.relinked = Relinked(b.s)]]
        \* after Restore(), then the distance checks
        Biased(s1, b) ==
            LET Distanced(d) == Checked(s1, b, d)
            IN  Apply(Distanced,
                      DistanceBlock(IF b.s.m_bRestoreLOD /\ b.s.m_iNumStaticMulties > 0
                                    THEN RestoreLOD(b.s, 0)
                                    ELSE b.s))
        Prepared(s1) ==
            LET Blocked(b) == Biased(s1, b)
            IN  Apply(Blocked, BiasBlock(s1))
    IN  IF s.m_iNumEntities < 0 \/ s.m_bWaitForTrigger
        THEN [s EXCEPT !.lastThink = [ran |-> FALSE, differed |-> FALSE, cycles |-> 0,
                                      oldCount |-> s.m_iNumEntities,
                                      newCount |-> s.m_iNumEntities,
                                      failed |-> s.lastThink.failed, retried |-> {},
                                      forced |-> FALSE]]
        ELSE Apply(Prepared, IF ~s.m_bPrepared THEN Prepare(s) ELSE s)

(***************************************************************************)
(* The Seed object and the host as one record, and back.                   *)
(***************************************************************************)
Self ==
    [active |-> active, thinkFlag |-> thinkFlag, m_bWaitForTrigger |-> m_bWaitForTrigger,
     m_bPrepared |-> m_bPrepared, m_bCombine |-> m_bCombine,
     m_iSeed |-> m_iSeed, m_iSeed_2 |-> m_iSeed_2, m_iOrgSeed |-> m_iOrgSeed,
     m_fLODBias |-> m_fLODBias, m_iNumEntities |-> m_iNumEntities,
     m_iNumExisting |-> m_iNumExisting, m_iNumVisible |-> m_iNumVisible,
     m_iNumStaticMulties |-> m_iNumStaticMulties, m_bRestoreLOD |-> m_bRestoreLOD,
     m_iThinkCounter |-> m_iThinkCounter, sinceDistCheck |-> sinceDistCheck,
     m_Classes |-> m_Classes, m_Entities |-> m_Entities, m_Inhibitors |-> m_Inhibitors,
     m_Skins |-> m_Skins, targets |-> targets, spawnArgs |-> spawnArgs,
     cv_lod_bias |-> cv_lod_bias, entities |-> entities, playerOrigin |-> playerOrigin,
     inPVS |-> inPVS, hostSpawn |-> hostSpawn, savefile |-> savefile,
     loadLog |-> loadLog, prepLog |-> prepLog, lastPrep |-> lastPrep, cullLog |-> cullLog, lastThink |-> lastThink,
     countLog |-> countLog]

Becomes(s) ==
    /\ active' = s.active /\ thinkFlag' = s.thinkFlag
    /\ m_bWaitForTrigger' = s.m_bWaitForTrigger
    /\ m_bPrepared' = s.m_bPrepared /\ m_bCombine' = s.m_bCombine
    /\ m_iSeed' = s.m_iSeed /\ m_iSeed_2' = s.m_iSeed_2 /\ m_iOrgSeed' = s.m_iOrgSeed
    /\ m_fLODBias' = s.m_fLODBias /\ m_iNumEntities' = s.m_iNumEntities
    /\ m_iNumExisting' = s.m_iNumExisting /\ m_iNumVisible' = s.m_iNumVisible
    /\ m_iNumStaticMulties' = s.m_iNumStaticMulties /\ m_bRestoreLOD' = s.m_bRestoreLOD
    /\ m_iThinkCounter' = s.m_iThinkCounter /\ sinceDistCheck' = s.sinceDistCheck
    /\ m_Classes' = s.m_Classes /\ m_Entities' = s.m_Entities
    /\ m_Inhibitors' = s.m_Inhibitors /\ m_Skins' = s.m_Skins /\ targets' = s.targets
    /\ spawnArgs' = s.spawnArgs
    /\ cv_lod_bias' = s.cv_lod_bias /\ entities' = s.entities
    /\ playerOrigin' = s.playerOrigin /\ inPVS' = s.inPVS /\ hostSpawn' = s.hostSpawn
    /\ prepLog' = s.prepLog /\ lastPrep' = s.lastPrep /\ cullLog' = s.cullLog /\ lastThink' = s.lastThink
    /\ countLog' = s.countLog
    /\ savefile' = s.savefile /\ loadLog' = s.loadLog

(***************************************************************************)
(* The operations.                                                         *)
(***************************************************************************)
\* the posted remove events are serviced at the end of every game frame, so no
\* object is waiting for its removal when an entity thinks
EventsServiced == {k \in 1..Len(entities) : entities[k].used /\ entities[k].removing} = {}

Think ==
    /\ thinkFlag
    /\ EventsServiced
    /\ \E s \in {ThinkBody(Self)} : Becomes(s)

Event_Activate ==
    /\ active' = TRUE
    /\ m_bWaitForTrigger' = FALSE
    /\ thinkFlag' = TRUE
    /\ UNCHANGED <<m_bPrepared, m_bCombine, m_iSeed, m_iSeed_2, m_iOrgSeed, m_fLODBias,
                   m_iNumEntities, m_iNumExisting, m_iNumVisible, m_iNumStaticMulties,
                   m_bRestoreLOD, m_iThinkCounter, sinceDistCheck, m_Classes, m_Entities,
                   m_Inhibitors, m_Skins, targets, spawnArgs, hostVars, histVars>>

Event_Disable ==
    /\ active' = FALSE
    /\ thinkFlag' = FALSE
    /\ UNCHANGED <<m_bWaitForTrigger, m_bPrepared, m_bCombine, m_iSeed, m_iSeed_2,
                   m_iOrgSeed, m_fLODBias,
                   m_iNumEntities, m_iNumExisting, m_iNumVisible, m_iNumStaticMulties,
                   m_bRestoreLOD, m_iThinkCounter, sinceDistCheck, m_Classes, m_Entities,
                   m_Inhibitors, m_Skins, targets, spawnArgs, hostVars, histVars>>

Event_Enable ==
    /\ active' = TRUE
    /\ thinkFlag' = FALSE
    /\ UNCHANGED <<m_bWaitForTrigger, m_bPrepared, m_bCombine, m_iSeed, m_iSeed_2,
                   m_iOrgSeed, m_fLODBias,
                   m_iNumEntities, m_iNumExisting, m_iNumVisible, m_iNumStaticMulties,
                   m_bRestoreLOD, m_iThinkCounter, sinceDistCheck, m_Classes, m_Entities,
                   m_Inhibitors, m_Skins, targets, spawnArgs, hostVars, histVars>>

\* the script event EV_CullAll
CullAll ==
    /\ EventsServiced
    /\ \E s \in {Event_CullAll(Self)} : Becomes(s)

(***************************************************************************)
(* The host.                                                               *)
(***************************************************************************)
BiasValues == {100, 105, 200}
PlayerSpots == {<<0, 0, 0>>, <<20, 0, 0>>}

SetLodBias ==
    /\ \E b \in BiasValues \ {cv_lod_bias} : cv_lod_bias' = b
    /\ UNCHANGED <<seedVars, spawnArgs, entities, playerOrigin, inPVS, hostSpawn, savefile,
                   histVars>>

MovePlayer ==
    /\ \E p \in PlayerSpots \ {playerOrigin} :
          /\ playerOrigin' = p
          /\ entities' = [entities EXCEPT ![1].origin = p]
    /\ UNCHANGED <<seedVars, spawnArgs, cv_lod_bias, inPVS, hostSpawn, savefile,
                   histVars>>

SetPVS ==
    /\ inPVS' = ~inPVS
    /\ UNCHANGED <<seedVars, spawnArgs, cv_lod_bias, entities, playerOrigin, hostSpawn,
                   savefile, histVars>>

SetHostSpawn ==
    /\ \E h \in {"ok", "limit", "none"} \ {hostSpawn} : hostSpawn' = h
    /\ UNCHANGED <<seedVars, spawnArgs, cv_lod_bias, entities, playerOrigin, inPVS, savefile,
                   histVars>>

\* the game is saved between two frames: Seed::Save writes the object, the host
\* its own objects and what idEntity keeps of the Seed (thinkFlags, targets)
MaxSaves == 1
MaxLoads == 2

SaveGame ==
    /\ EventsServiced
    /\ loadLog.saves < MaxSaves
    /\ savefile' = [written |-> TRUE, seed |-> Save(Self), entities |-> entities,
                    playerOrigin |-> playerOrigin, thinkFlag |-> thinkFlag,
                    targets |-> targets]
    /\ loadLog' = [loadLog EXCEPT !.saves = @ + 1,
                                  !.from = [written |-> TRUE, m_Entities |-> m_Entities,
                                            m_Classes |-> m_Classes,
                                            m_bPrepared |-> m_bPrepared,
                                            entities |-> entities]]
    /\ UNCHANGED <<seedVars, spawnArgs, cv_lod_bias, entities, playerOrigin, inPVS,
                   hostSpawn, prepLog, lastPrep, cullLog, lastThink, countLog>>

\* the game is loaded: the host makes its objects anew as they were saved, a
\* composite object without the offsets that SetLODData gave it, for these
\* were the list of a class table that is no more; it constructs the Seed and
\* calls Seed::Restore
LoadGame ==
    /\ savefile.written
    /\ loadLog.loads < MaxLoads
    \* the memory that m_Entities.SetNum hands out holds any value
    /\ \E memory \in {<<0, 0, 0>>, <<1, 1, 1>>} :
          Becomes([Restore(Constructed(Self), savefile.seed, memory)
                   EXCEPT !.entities = [k \in 1..Len(savefile.entities) |->
                                           [savefile.entities[k] EXCEPT !.offsets = <<>>]],
                          !.playerOrigin = savefile.playerOrigin,
                          !.thinkFlag = savefile.thinkFlag,
                          !.targets = savefile.targets,
                          !.loadLog = [loadLog EXCEPT !.loads = @ + 1, !.thinks = 0,
                                                      !.prepared = FALSE,
                                                      !.relinked = {}]])

\* gameLocal.time advances; sinceDistCheck is gameLocal.time - m_DistCheckTimeStamp,
\* kept up to one above the interval
RunFrame ==
    /\ sinceDistCheck <= spawnArgs.dist_check_interval
    /\ sinceDistCheck' = sinceDistCheck + 1
    /\ UNCHANGED <<active, thinkFlag, m_bWaitForTrigger, m_bPrepared, m_bCombine, m_iSeed,
                   m_iSeed_2, m_iOrgSeed, m_fLODBias, m_iNumEntities, m_iNumExisting,
                   m_iNumVisible, m_iNumStaticMulties, m_bRestoreLOD, m_iThinkCounter,
                   m_Classes, m_Entities, m_Inhibitors, m_Skins, targets, spawnArgs,
                   hostVars, histVars>>

ServiceEvents ==
    /\ ~EventsServiced
    /\ entities' = ServiceRemove(entities)
    /\ UNCHANGED <<seedVars, spawnArgs, cv_lod_bias, playerOrigin, inPVS, hostSpawn, savefile,
                   histVars>>

(***************************************************************************)
(* The maps: the spawnargs of the SEED, its targets and the objects that   *)
(* are in the world when the map starts.                                   *)
(***************************************************************************)
WorldSlots == 12

BaseArgs ==
    [ size |-> <<8, 8, 8>>, spacing |-> 0, max_entities |-> 4, lod_scaling_limit |-> 10,
      seed_max_entities |-> 0, rotate_min_yaw |-> 0, rotate_max_yaw |-> 360,
      hasGround |-> FALSE, groundZ |-> 0, combine |-> FALSE, combine_distance |-> 1024,
      numPVSAreas |-> 1, pvsPlaneX |-> 0, maxModelCount |-> 3, missingDefs |-> {},
      missingClips |-> {},
      z_min |-> -1000000, z_max |-> 1000000, z_fadein |-> 0, z_fadeout |-> 0,
      randseed |-> 7, remove |-> FALSE, wait_for_trigger |-> FALSE,
      dist_check_interval |-> 1, argsRightToLeft |-> FALSE, sortTiesReversed |-> FALSE ]

BaseTarget ==
    [ defName |-> "atdm:grass", slot |-> 1, seed_watch_brethren |-> FALSE,
      seed_combine |-> TRUE, neverCombineType |-> FALSE, scriptobject |-> "",
      particleModel |-> FALSE, seed_score |-> 1, skin |-> <<"">>,
      seed_sink_min |-> 0, seed_sink_max |-> 0, seed_bunching |-> 0, seed_spacing |-> 0,
      size |-> <<2, 2, 2>>, seed_cull_range |-> 4, hide_distance |-> 4,
      inlineModel |-> FALSE, model |-> "models/grass.lwo", solid |-> FALSE,
      origin |-> <<40, 0, 0>>, seed_offset |-> Zero3, seed_floor |-> FALSE,
      seed_noinhibit |-> FALSE, inhibit |-> <<>>, noinhibit |-> <<>>,
      seed_scale_min |-> <<1, 1, 1>>, seed_scale_max |-> <<1, 1, 1>>,
      seed_color_min |-> <<1, 1, 1>>, seed_color_max |-> <<1, 1, 1>>,
      seed_z_invert |-> FALSE, seed_z_min |-> -1000000, seed_z_max |-> 1000000,
      seed_z_fadein |-> 0, seed_z_fadeout |-> 0,
      moveable |-> FALSE ]

\* two targets of class atdm:no_seed: one without a class list over the half
\* x <= 0 of the SEED, one with "inhibit" "atdm:fern" over the strip 2 <= x <= 4
NoSeedAll(slot) ==
    [BaseTarget EXCEPT !.defName = "atdm:no_seed", !.slot = slot,
                       !.origin = <<-4, 0, 0>>, !.size = <<8, 16, 16>>]

NoSeedFerns(slot) ==
    [BaseTarget EXCEPT !.defName = "atdm:no_seed", !.slot = slot,
                       !.origin = <<3, 0, 0>>, !.size = <<2, 16, 16>>,
                       !.inhibit = <<"atdm:fern">>]

MapArgs(map) ==
    CASE map = "meadow" ->
           [BaseArgs EXCEPT !.size = <<2, 2, 2>>, !.max_entities = 40,
                            !.lod_scaling_limit = 40, !.rotate_max_yaw = 0]
      [] map = "ferns" ->
           [BaseArgs EXCEPT !.spacing = 1]
      [] map = "thicket" ->
           [BaseArgs EXCEPT !.combine = TRUE, !.lod_scaling_limit = 0]
      [] map = "mushrooms" ->
           [BaseArgs EXCEPT !.combine = TRUE, !.max_entities = 2]
      [] map = "cellar" ->
           [BaseArgs EXCEPT !.wait_for_trigger = TRUE, !.lod_scaling_limit = 0,
                            !.seed_max_entities = 2]
      [] map \in {"grove", "hedge"} ->
           [BaseArgs EXCEPT !.max_entities = 6, !.lod_scaling_limit = 0]
      [] map = "rubble" ->
           [BaseArgs EXCEPT !.max_entities = 2, !.missingDefs = {FUNC_DUMMY}]
      [] map = "clearing" ->
           [BaseArgs EXCEPT !.max_entities = 8, !.lod_scaling_limit = 0]
      [] map = "toadstools" ->
           [BaseArgs EXCEPT !.max_entities = 4, !.lod_scaling_limit = 0]
      [] map = "copse" ->
           [BaseArgs EXCEPT !.combine = TRUE, !.max_entities = 5,
                            !.lod_scaling_limit = 0, !.maxModelCount = 2]
      [] map = "terrace" ->
           [BaseArgs EXCEPT !.max_entities = 1, !.lod_scaling_limit = 0]
      [] map = "doorway" ->
           [BaseArgs EXCEPT !.combine = TRUE, !.numPVSAreas = 2, !.max_entities = 6,
                            !.missingClips = {"models/bush.lwo"}]

MapTargets(map) ==
    CASE map = "meadow" ->
           << [BaseTarget EXCEPT !.seed_score = 0],
              [BaseTarget EXCEPT !.defName = "atdm:fern", !.slot = 2, !.seed_score = 3,
                                 !.model = "models/fern.lwo"] >>
      [] map = "ferns" ->
           << [BaseTarget EXCEPT !.defName = "atdm:fern", !.size = <<4, 4, 4>>,
                                 !.seed_bunching = 128, !.seed_offset = <<1, 0, 0>>,
                                 !.seed_sink_max = 2, !.model = "models/fern.lwo"] >>
      [] map = "thicket" ->
           << [BaseTarget EXCEPT !.defName = "atdm:rock", !.seed_watch_brethren = TRUE,
                                 !.model = "models/rock.lwo"],
              [BaseTarget EXCEPT !.defName = "atdm:bush", !.slot = 2,
                                 !.model = "models/bush.lwo"] >>
      [] map = "mushrooms" ->
           << [BaseTarget EXCEPT !.defName = "atdm:mushroom", !.seed_watch_brethren = TRUE,
                                 !.model = "models/mushroom.lwo"],
              [BaseTarget EXCEPT !.slot = 2] >>
      [] map = "cellar" ->
           << [BaseTarget EXCEPT !.defName = "atdm:moss", !.model = "models/moss.lwo"],
              [BaseTarget EXCEPT !.defName = "atdm:lichen", !.slot = 2, !.seed_score = 5,
                                 !.model = "models/lichen.lwo"] >>
      [] map = "grove" ->
           << BaseTarget, NoSeedAll(2), NoSeedFerns(3) >>
      [] map = "hedge" ->
           << BaseTarget, NoSeedFerns(2), NoSeedAll(3) >>
      [] map = "clearing" ->
           \* the third target has no class list and lies over the half y <= 0
           << BaseTarget, NoSeedAll(2),
              [NoSeedAll(3) EXCEPT !.origin = <<0, -4, 0>>, !.size = <<16, 8, 16>>] >>
      [] map = "copse" ->
           << [BaseTarget EXCEPT !.seed_score = 4],
              [BaseTarget EXCEPT !.defName = "atdm:bush", !.slot = 2,
                                 !.seed_combine = FALSE, !.model = "models/bush.lwo"] >>
      [] map = "terrace" -> << BaseTarget >>
      [] map = "doorway" ->
           << [BaseTarget EXCEPT !.solid = TRUE],
              [BaseTarget EXCEPT !.defName = "atdm:bush", !.slot = 2, !.solid = TRUE,
                                 !.model = "models/bush.lwo"] >>
      [] map = "toadstools" ->
           << [BaseTarget EXCEPT !.defName = "atdm:mushroom", !.seed_watch_brethren = TRUE,
                                 !.model = "models/mushroom.lwo"],
              [BaseTarget EXCEPT !.slot = 2] >>
      [] map = "rubble" ->
           << [BaseTarget EXCEPT !.defName = FUNC_STATIC, !.inlineModel = TRUE,
                                 !.model = "models/rubble.lwo"] >>

\* the objects of the map inside the SEED that a watch class can find
MapBrethren(map) ==
    IF map \in {"mushrooms", "toadstools"}
    THEN << LiveEntity("atdm:mushroom", <<1, 1, 0>>, 90, ""),
            LiveEntity("atdm:mushroom", <<-2, 1, 0>>, 0, "") >>
    ELSE <<>>

MapWorld(map) ==
    LET tg == MapTargets(map)
        br == MapBrethren(map)
    IN  [k \in 1..WorldSlots |->
            IF k = 1 THEN LiveEntity("player", <<0, 0, 0>>, 0, "")
            ELSE IF k - 1 <= Len(tg) THEN LiveEntity(tg[k - 1].defName, tg[k - 1].origin, 0, "")
            ELSE IF k - 1 - Len(tg) <= Len(br) THEN br[k - 1 - Len(tg)]
            ELSE NoEntity]

(***************************************************************************)
(* The state after the constructor and Spawn().                            *)
(***************************************************************************)
StartOn(args, tgts, world) ==
       /\ spawnArgs = args
       /\ targets = tgts
       /\ entities = world
       /\ active = TRUE
       /\ thinkFlag = TRUE
       /\ m_bWaitForTrigger = args.wait_for_trigger
       /\ m_bPrepared = FALSE
       /\ m_bCombine = args.combine
       /\ m_iSeed = 3
       /\ m_iSeed_2 = 7
       /\ m_iOrgSeed = 7
       /\ cv_lod_bias = 100
       /\ m_fLODBias = 100
       /\ m_iNumEntities = 0
       /\ m_iNumExisting = 0
       /\ m_iNumVisible = 0
       /\ m_iNumStaticMulties = 0
       /\ m_bRestoreLOD = FALSE
       /\ m_iThinkCounter = 0
       /\ sinceDistCheck \in {args.dist_check_interval, args.dist_check_interval + 1}
       /\ m_Classes = <<>>
       /\ m_Entities = <<>>
       /\ m_Inhibitors = <<>>
       /\ m_Skins = <<"">>
       /\ playerOrigin = <<0, 0, 0>>
       /\ inPVS = TRUE
       /\ hostSpawn = "ok"
       /\ savefile = NoFile
       /\ loadLog = [saves |-> 0, loads |-> 0, thinks |-> 0, prepared |-> FALSE,
                     relinked |-> {}, from |-> NoFile]
       /\ prepLog = {}
       /\ cullLog = [pending |-> {},
                     last |-> [done |-> FALSE,
                               before |-> [objOrigin |-> Zero3, objAxis |-> 0,
                                           origin |-> Zero3, angles |-> 0],
                               after |-> [objOrigin |-> Zero3, objAxis |-> 0,
                                          origin |-> Zero3, angles |-> 0]]]
       /\ lastPrep = [ran |-> FALSE, again |-> FALSE, seed2 |-> 0, orgSeed |-> 0,
                      classes |-> <<>>, placed |-> <<>>, tried |-> <<>>, scanned |-> <<>>,
                      merges |-> <<>>, handles |-> {}, handlesAfter |-> {}]
       /\ lastThink = [ran |-> FALSE, differed |-> FALSE, cycles |-> 0,
                       oldCount |-> 0, newCount |-> 0,
                       failed |-> {}, retried |-> {}, forced |-> FALSE]
       /\ countLog = [called |-> FALSE, bias |-> 100, max_entities |-> 0, iScoreSum |-> 0,
                      divided |-> FALSE]

Start(map, rightToLeft, tiesReversed) ==
    StartOn([MapArgs(map) EXCEPT !.argsRightToLeft = rightToLeft,
                                 !.sortTiesReversed = tiesReversed],
            MapTargets(map), MapWorld(map))

\* the order in which the build sorts equal distances only shows with combining
Init ==
    \E map \in {"meadow", "ferns", "thicket", "mushrooms", "cellar"}, rightToLeft \in BOOLEAN, tiesReversed \in BOOLEAN :
       /\ (tiesReversed => MapArgs(map).combine)
       /\ Start(map, rightToLeft, tiesReversed)

Next ==
    \/ Think
    \/ Event_Activate
    \/ Event_Disable
    \/ Event_Enable
    \/ CullAll
    \/ SetLodBias
    \/ MovePlayer
    \/ RunFrame
    \/ ServiceEvents

Spec == Init /\ [][Next]_vars

\* the same program on one map, with a host whose visibility answer and whose
\* answer to a spawn request change
InitHost == \E map \in {"ferns", "rubble"} : Start(map, FALSE, FALSE)

NextHost ==
    \/ Think
    \/ MovePlayer
    \/ SetPVS
    \/ SetHostSpawn
    \/ RunFrame
    \/ ServiceEvents

SpecHost == InitHost /\ [][NextHost]_vars

\* the same program on the maps with composites, saved and loaded
InitSave == \E map \in {"thicket", "mushrooms"} : Start(map, FALSE, FALSE)

NextSave ==
    \/ Think
    \/ SaveGame
    \/ LoadGame
    \/ MovePlayer
    \/ RunFrame
    \/ ServiceEvents

SpecSave == InitSave /\ [][NextSave]_vars

\* the same program on the maps with inhibitors
InitInhibit == \E map \in {"grove", "hedge", "clearing"} : Start(map, FALSE, FALSE)

SpecInhibit == InitInhibit /\ [][Next]_vars

InitWatch == Start("toadstools", FALSE, FALSE)

InitCombine ==
    \E map \in {"doorway", "copse"}, tiesReversed \in BOOLEAN :
        Start(map, FALSE, tiesReversed)

SpecCombine == InitCombine /\ [][NextHost]_vars

SpecWatch == InitWatch /\ [][Next]_vars

\* the same program on one map whose SEED sets the z band of its class and the
\* flooring of the target; the target sets no z band of its own, so the
\* spawnargs of the SEED count
InitZBand ==
    \E z_min \in {-1000000, 0, 4}, z_max \in {1000000, 2},
       z_fadein \in {-1, 0, 3}, z_fadeout \in {-1, 0, 3}, seed_floor \in BOOLEAN :
        StartOn([MapArgs("terrace") EXCEPT !.z_min = z_min, !.z_max = z_max,
                                           !.z_fadein = z_fadein, !.z_fadeout = z_fadeout],
                << [key \in DOMAIN BaseTarget \ {"seed_z_min", "seed_z_max",
                                                  "seed_z_fadein", "seed_z_fadeout"} |->
                       IF key = "seed_floor" THEN seed_floor ELSE BaseTarget[key]] >>,
                MapWorld("terrace"))

NextZBand ==
    \/ Think
    \/ MovePlayer
    \/ RunFrame
    \/ ServiceEvents

SpecZBand == InitZBand /\ [][NextZBand]_vars

(***************************************************************************)
(* Properties of the placement.                                            *)
(***************************************************************************)

\* C1: two runs of PrepareEntities with the same class table, the same inhibitors
\* and the same target count start from the same working seed (the first run from
\* the root seed, the rerun of Think after it reset m_iSeed_2 to m_iOrgSeed) and
\* place the same instances in the same order.
C1_SamePlacement ==
    \A a, b \in prepLog :
        (/\ a.key.classes = b.key.classes
         /\ a.key.inhibitors = b.key.inhibitors
         /\ a.key.numEntities = b.key.numEntities)
        => (a.key.seed2 = b.key.seed2 /\ a.placed = b.placed)

\* a rerun by Think with an input that an earlier run had, with instances placed
C1_Rerun ==
    /\ lastPrep.again
    /\ lastThink.cycles = 1
    /\ Len(lastPrep.placed) >= 2

\* C2: after PrepareEntities no two generated instances have boxes (centre the
\* origin, the size of the class, turned by the angles), each expanded by the
\* effective spacing of its class, that intersect.
C2_NoOverlap ==
    \A r \in prepLog :
        LET box(e) ==
                LET c == r.key.classes[e.classIdx + 1]
                IN  BoxExpand(idBox(e.origin,
                                    <<c.size[1] \div 2, c.size[2] \div 2, c.size[3] \div 2>>,
                                    ToMat3(e.angles)),
                              UseSpacing(c, spawnArgs))
        IN  \A i, j \in 1..Len(r.placed) :
                i < j => ~BoxIntersectsBox(box(r.placed[i]), box(r.placed[j]))

\* C3: every instance recorded by PrepareEntities, generated or watched, has its
\* origin inside the box of the SEED: centre m_origin, the size of the SEED.
C3_InsideSeed ==
    \A k \in 1..Len(lastPrep.scanned) :
        BoxContainsPoint(idBox(m_origin,
                               <<spawnArgs.size[1] \div 2, spawnArgs.size[2] \div 2,
                                 spawnArgs.size[3] \div 2>>, 0),
                         lastPrep.scanned[k].origin)

\* C4: the offset list of every composite class has at most maxModelCount records.
C4_OffsetsFit ==
    \A k \in 1..Len(m_Classes) :
        m_Classes[k].pseudo => Len(m_Classes[k].offsets) <= spawnArgs.maxModelCount

\* C5 as amended: when a seed instance has more merge candidates than the
\* capacity N, the composite has N members; the seed is one of them, no member
\* is farther from the seed than a candidate that is left out, and every
\* candidate that is left out has its original class index again.
C5_NearestKept ==
    \A n \in 1..Len(lastPrep.merges) :
        LET m == lastPrep.merges[n]
            kept == {m.kept[k] : k \in 1..Len(m.kept)}
            out == {m.cand[k] : k \in 1..Len(m.cand)} \ kept
            dist(j) == LengthSqr(VSub(lastPrep.scanned[j + 1].origin,
                                      lastPrep.scanned[m.seed + 1].origin))
        IN  Len(m.cand) > m.maxModelCount
            => /\ Len(m.kept) = m.maxModelCount
               /\ m.seed \in kept
               /\ \A a \in kept, b \in out : dist(a) <= dist(b)
               /\ \A b \in out : /\ m.idxAfter[b + 1] = m.idxBefore[b + 1]
                                 /\ m.idxAfter[b + 1] >= 0

\* a merge with more candidates than the capacity, one of them left out at a
\* larger distance than a member
C5_TooMany ==
    \E n \in 1..Len(lastPrep.merges) :
        LET m == lastPrep.merges[n]
            kept == {m.kept[k] : k \in 1..Len(m.kept)}
            out == {m.cand[k] : k \in 1..Len(m.cand)} \ kept
            dist(j) == LengthSqr(VSub(lastPrep.scanned[j + 1].origin,
                                      lastPrep.scanned[m.seed + 1].origin))
        IN  /\ Len(m.cand) > m.maxModelCount
            /\ \E a \in kept \ {m.seed}, b \in out : dist(a) < dist(b)

\* C5 as stated: with more candidates than the capacity N, exactly the N
\* nearest candidates are kept in the composite.
C5_KeepsNCandidates ==
    \A n \in 1..Len(lastPrep.merges) :
        LET m == lastPrep.merges[n]
            kept == {m.kept[k] : k \in 1..Len(m.kept)}
        IN  Len(m.cand) > m.maxModelCount
            => Cardinality(kept \ {m.seed}) = m.maxModelCount

(***************************************************************************)
(* Properties of the instance table and of spawn and cull.                 *)
(***************************************************************************)

C7_NoLiveHandleDropped == lastPrep.handles \subseteq lastPrep.handlesAfter

\* C8 as amended: CullEntity followed by a successful SpawnEntity gives the new
\* live object the origin and the orientation of the culled one, and leaves the
\* origin of the instance record as it was; the angles of the record are then
\* the angles of the culled object, which name the orientation the object had.
C8_SameTransform ==
    cullLog.last.done
    => /\ cullLog.last.after.objOrigin = cullLog.last.before.objOrigin
       /\ cullLog.last.after.objAxis = cullLog.last.before.objAxis
       /\ cullLog.last.after.origin = cullLog.last.before.origin
       /\ ToMat3(cullLog.last.after.angles) = cullLog.last.before.objAxis

\* a round trip of an instance with a yaw above 180 degrees
C8_RoundTrip ==
    /\ cullLog.last.done
    /\ cullLog.last.before.angles > 180

\* C8 as stated: after the round trip the angles of the instance record are
\* the same as before the cull.
C8_SameAngles ==
    cullLog.last.done
    => /\ cullLog.last.after.objOrigin = cullLog.last.before.objOrigin
       /\ cullLog.last.after.objAxis = cullLog.last.before.objAxis
       /\ cullLog.last.after.origin = cullLog.last.before.origin
       /\ cullLog.last.after.angles = cullLog.last.before.angles

(***************************************************************************)
(* Properties of Think and of ComputeEntityCount.                          *)
(***************************************************************************)

\* C9 as amended: a Think that returns early (no targets, or waiting for the
\* trigger) runs no cycle and leaves m_fLODBias alone.  Any other Think with
\* cv_lod_bias more than 0.1 from m_fLODBias computes the target count anew and
\* stores the bias; it runs one cycle (cull all, working seed reset to the root
\* seed, PrepareEntities) if the new count differs from the old one, else none.
\* A Think with the bias within the tolerance runs no cycle.
C9_CycleIffCountChanged ==
    [][(UNCHANGED <<cv_lod_bias, playerOrigin>> /\ sinceDistCheck' <= sinceDistCheck /\ Think) =>
         LET early == m_iNumEntities < 0 \/ m_bWaitForTrigger
             differs == BiasChanged(cv_lod_bias, m_fLODBias)
         IN  /\ lastThink'.ran = ~early
             /\ lastThink'.cycles \in {0, 1}
             /\ early => (lastThink'.cycles = 0 /\ m_fLODBias' = m_fLODBias)
             /\ (~early /\ ~differs) => lastThink'.cycles = 0
             /\ (~early /\ differs)
                => /\ m_fLODBias' = cv_lod_bias
                   /\ lastThink'.cycles = 1 <=> lastThink'.newCount # lastThink'.oldCount
             /\ lastThink'.cycles = 1
                => /\ lastPrep'.seed2 = m_iOrgSeed
                   /\ lastPrep'.handles = {}
                   /\ m_iNumEntities' = lastThink'.newCount]_vars

\* a Think that ran one cycle, and a Think that stored a changed bias without one
C9_Cycle ==
    /\ lastThink.ran
    /\ lastThink.differed
    /\ lastThink.cycles = 1
    /\ lastThink.newCount # lastThink.oldCount

\* C9 as stated: when cv_lod_bias is more than 0.1 from m_fLODBias, the next
\* Think runs one cycle.
C9_AlwaysOneCycle ==
    [][(BiasChanged(cv_lod_bias, m_fLODBias) /\ UNCHANGED <<cv_lod_bias, playerOrigin>>
        /\ sinceDistCheck' <= sinceDistCheck /\ Think) => lastThink'.cycles = 1]_vars

\* C10: with max_entities = M > 0 that the bias leaves unscaled, every class
\* that is neither watch nor pseudo has the count max(1, floor(M * score / sum
\* of the scores)), lowered to its own cap if that is positive and smaller; the
\* scores 1 and 3 with M = 40 give 10 and 30; no division has the divisor 0.
C10_ScoreShare ==
    LET M == spawnArgs.max_entities
        sum == SumScores(m_Classes)
        share(c) == Max(1, (M * c.score) \div sum)
        expected(c) == IF c.maxEntities > 0 /\ c.maxEntities < share(c)
                       THEN c.maxEntities ELSE share(c)
    IN  /\ countLog.divided => countLog.iScoreSum # 0
        /\ (countLog.called /\ M > 0 /\ countLog.max_entities = M)
           => \A k \in 1..Len(m_Classes) :
                  (~m_Classes[k].pseudo /\ ~m_Classes[k].watch)
                  => /\ m_Classes[k].numEntities = expected(m_Classes[k])
                     /\ ((M = 40 /\ sum = 4 /\ m_Classes[k].score = 1)
                         => m_Classes[k].numEntities = 10)
                     /\ ((M = 40 /\ sum = 4 /\ m_Classes[k].score = 3)
                         => m_Classes[k].numEntities = 30)

\* the counts for the scores 1 and 3 with M = 40
C10_TenAndThirty ==
    /\ countLog.called
    /\ countLog.divided
    /\ spawnArgs.max_entities = 40
    /\ countLog.max_entities = 40
    /\ Len(m_Classes) = 2
    /\ m_Classes[1].score = 1 /\ m_Classes[1].numEntities = 10
    /\ m_Classes[2].score = 3 /\ m_Classes[2].numEntities = 30

(***************************************************************************)
(* Properties of the inhibitors and of the tries.                          *)
(***************************************************************************)
\* C11: a candidate of an inhibitable class is rejected whenever at least one
\* inhibitor whose box intersects the box of the candidate inhibits the class,
\* whatever the number and the order of the inhibitors: no instance that
\* PrepareEntities placed has such an inhibitor.
C11_AnyInhibits ==
    lastPrep.ran =>
        \A k \in 1..Len(lastPrep.placed) :
            LET e == lastPrep.placed[k]
                c == lastPrep.classes[e.classIdx + 1]
            IN  ~c.noinhibit =>
                    \A n \in 1..Len(m_Inhibitors) :
                        ~(/\ BoxIntersectsBox(EntityBox(c, e.origin, ToMat3(e.angles)),
                                              m_Inhibitors[n].box)
                          /\ InhibitorVerdict(m_Inhibitors[n], c.classname))

\* C17: every instance has at most MAX_TRIES = 8 attempts; it is recorded if
\* and only if one of the attempts 1 .. 8 passes every check, and skipped only
\* when all 8 attempts fail.
C17_KeptIffFound ==
    lastPrep.ran =>
        /\ \A k \in 1..Len(lastPrep.tried) :
               LET r == lastPrep.tried[k]
               IN  /\ r.found => r.tries \in 1..MAX_TRIES
                   /\ ~r.found => r.tries = MAX_TRIES + 1
                   /\ r.kept <=> r.found
        /\ Len(lastPrep.placed)
               = Cardinality({k \in 1..Len(lastPrep.tried) : lastPrep.tried[k].found})

(***************************************************************************)
(* Properties of the composites.                                           *)
(***************************************************************************)
\* C12: the offset list of every composite has one record for every member,
\* the seed instance and each instance merged into it; the first record is
\* that of the seed instance, with offset zero; a seed instance with a single
\* merged instance gives a composite with exactly two records.
C12_RecordPerMember ==
    lastPrep.ran =>
        \A j \in 1..Len(lastPrep.merges) :
            LET m == lastPrep.merges[j]
                c == m_Classes[Len(lastPrep.classes) + j]
                members == {m.kept[k] : k \in 1..Len(m.kept)}
            IN  /\ c.pseudo
                /\ Cardinality(members) = Len(m.kept)
                /\ m.seed \in members
                /\ members \subseteq {m.seed} \cup {m.cand[k] : k \in 1..Len(m.cand)}
                /\ Len(c.offsets) = Len(m.kept)
                /\ \A k \in 1..Len(m.kept) :
                       c.offsets[k] = MakeOffset(lastPrep.scanned, m.seed, m.kept[k])
                /\ m.kept[1] = m.seed
                /\ c.offsets[1].offset = Zero3
                /\ (Len(m.cand) = 1 => Len(c.offsets) = 2)

\* a composite of a seed instance and one merged instance
C12_Pair ==
    /\ lastPrep.ran
    /\ \E j \in 1..Len(lastPrep.merges) :
           /\ Len(lastPrep.merges[j].cand) = 1
           /\ Len(m_Classes[Len(lastPrep.classes) + j].offsets) = 2

(***************************************************************************)
(* Properties of Save and Restore.  loadLog.from is the state that was     *)
(* saved, loadLog.thinks the number of calls of Think since the last       *)
(* Restore that did not return at once.                                    *)
(***************************************************************************)
\* C13: Save followed by Restore reproduces the instance table: every record
\* has the skin index, origin, angles, color, scale, flags, handle of the
\* live object and class index it had when the game was saved.
C13_TableReproduced ==
    (loadLog.loads > 0 /\ loadLog.thinks = 0) =>
        /\ Len(m_Entities) = Len(loadLog.from.m_Entities)
        /\ \A k \in 1..Len(m_Entities) : m_Entities[k] = loadLog.from.m_Entities[k]

\* C14: Save followed by Restore reproduces the ordered offset records of
\* every composite class, so that the first Think after Restore hands every
\* restored composite object the offsets it had.
C14_OffsetsReproduced ==
    LET from == loadLog.from
    IN  /\ (loadLog.loads > 0 /\ loadLog.thinks = 0) =>
               \A k \in 1..Len(from.m_Classes) :
                   from.m_Classes[k].pseudo =>
                       /\ k <= Len(m_Classes)
                       /\ m_Classes[k].offsets = from.m_Classes[k].offsets
        /\ (loadLog.loads > 0 /\ loadLog.thinks = 1) =>
               \A k \in 1..Len(from.m_Entities) :
                   LET e == from.m_Entities[k]
                       c == from.m_Classes[e.classIdx + 1]
                   IN  (c.pseudo /\ HasFlag(e, SEED_ENTITY_EXISTS)) =>
                           entities[e.entity + 1].offsets = c.offsets

\* C15: for a distribution that was prepared when the game was saved, the
\* first Think after Restore does not run Prepare again.
C15_PreparedOnce ==
    (loadLog.loads > 0 /\ loadLog.thinks = 1 /\ loadLog.from.m_bPrepared) =>
        ~loadLog.prepared

\* C16: the re-registration of the composites after Restore happens once:
\* Restore itself performs none, the first Think after it hands the offsets
\* to every live composite object, and no later Think does so again.
C16_RelinkedOnce ==
    LET from == loadLog.from
        composites == {from.m_Entities[k].entity :
                          k \in {j \in 1..Len(from.m_Entities) :
                                     /\ from.m_Classes[from.m_Entities[j].classIdx + 1].pseudo
                                     /\ HasFlag(from.m_Entities[j], SEED_ENTITY_EXISTS)}}
    IN  loadLog.loads > 0 =>
            /\ loadLog.thinks = 0 =>
                   /\ loadLog.relinked = {}
                   /\ \A k \in 1..Len(entities) : entities[k].offsets = <<>>
            /\ loadLog.thinks = 1 => loadLog.relinked = composites
            /\ loadLog.thinks = 2 => loadLog.relinked = {}
(***************************************************************************)
(* Properties of the distance pass.                                        *)
(***************************************************************************)
\* C18: a SpawnEntity that returns false leaves the object and the host as
\* they were (the flags, handle, origin and angles of the instance and the
\* counters m_iNumExisting, m_iNumVisible, m_iNumStaticMulties included), for
\* every instance and each of the three causes; and a distance pass that runs
\* calls SpawnEntity again for every instance whose last call failed and
\* that is in spawn range at that pass
C18_FailedSpawnRetried ==
    /\ [](\A idx \in 0..(Len(m_Entities) - 1) : \A managed \in BOOLEAN :
             BitAnd(m_Entities[idx + 1].flags, SEED_ENTITY_EXISTS) = 0
                 => LET r == SpawnEntity(Self, idx, managed)
                    IN  /\ (hostSpawn # "ok"
                             \/ m_Classes[m_Entities[idx + 1].classIdx + 1].classname
                                    \in spawnArgs.missingDefs) => ~r.ok
                        /\ ~r.ok => r.s = Self)
    /\ [][(/\ m_bPrepared
            /\ sinceDistCheck > spawnArgs.dist_check_interval
            /\ sinceDistCheck' = 0
            /\ m_iThinkCounter' = 0
            /\ lastThink'.ran /\ ~lastThink'.differed)
           => \A idx \in lastThink.failed :
                  LET ent == m_Entities[idx + 1]
                      lclass == m_Classes[ent.classIdx + 1]
                  IN  (lclass.spawnDist = 0
                       \/ DeltaBelow(VSub(playerOrigin, ent.origin), cv_lod_bias,
                                     lclass.spawnDist))
                          => idx \in lastThink'.retried]_vars

\* an instance whose spawn failed in an earlier pass is tried again and exists
C18_RetriedAndSpawned ==
    /\ lastThink.retried # {}
    /\ \E idx \in lastThink.retried :
           /\ idx \notin lastThink.failed
           /\ BitAnd(m_Entities[idx + 1].flags, SEED_ENTITY_EXISTS) # 0

(***************************************************************************)
(* Properties of the scheduling.                                           *)
(***************************************************************************)
\* C19: a Think whose computation of the distribution (the first Prepare, or
\* a cycle of the recomputation after a change of the quality bias) ends with
\* an empty instance table leaves the distribution not scheduled; and while it
\* is not scheduled no Think runs, so nothing is placed, spawned or culled by
\* Think until Event_Activate schedules it again
C19_EmptyStopsScheduling ==
    /\ [][(/\ \/ (~m_bPrepared /\ m_bPrepared')
               \/ (m_fLODBias' # m_fLODBias /\ lastThink'.ran /\ lastThink'.cycles > 0)
            /\ Len(m_Entities') = 0)
           => ~thinkFlag']_vars
    /\ [][~thinkFlag => (lastThink' = lastThink /\ prepLog' = prepLog)]_vars

\* C20: in a Think of a prepared distribution whose interval check comes due
\* while the region is outside the player PVS: with a think counter below 20
\* the check adds one to m_iThinkCounter, takes the new time stamp and changes
\* nothing else (no instance, no live object, no counter); with the counter
\* at 20, that is after 20 skipped checks in a row, the check runs the
\* distance pass, which spawns every instance in spawn range that the host
\* can create and culls every live one beyond its cull distance, and sets
\* the counter to 0; the counter never exceeds 20
C20_SkipsBounded ==
    /\ [](m_iThinkCounter \in 0..20)
    /\ [][(/\ m_bPrepared /\ m_iNumEntities >= 0 /\ ~m_bWaitForTrigger
            /\ ~BiasChanged(cv_lod_bias, m_fLODBias)
            /\ ~inPVS
            /\ sinceDistCheck > spawnArgs.dist_check_interval
            /\ sinceDistCheck' = 0)
           => IF m_iThinkCounter < 20
              THEN /\ m_iThinkCounter' = m_iThinkCounter + 1
                   /\ ~lastThink'.forced
                   /\ UNCHANGED <<m_Entities, m_Classes, entities, m_iNumExisting,
                                  m_iNumVisible, m_iNumStaticMulties, m_iNumEntities,
                                  m_iSeed, m_iSeed_2, cullLog, prepLog>>
              ELSE /\ m_iThinkCounter' = 0
                   /\ lastThink'.forced
                   /\ \A k \in 1..Len(m_Entities) :
                          LET ent == m_Entities[k]
                              lclass == m_Classes[ent.classIdx + 1]
                              delta == VSub(playerOrigin, ent.origin)
                              existed == BitAnd(ent.flags, SEED_ENTITY_EXISTS) # 0
                              exists == BitAnd(m_Entities'[k].flags, SEED_ENTITY_EXISTS) # 0
                          IN  /\ (/\ ~existed
                                   /\ hostSpawn = "ok"
                                   /\ lclass.classname \notin spawnArgs.missingDefs
                                   /\ (lclass.spawnDist = 0
                                       \/ DeltaBelow(delta, cv_lod_bias, lclass.spawnDist)))
                                  => exists
                              /\ (/\ existed
                                   /\ lclass.cullDist > 0
                                   /\ DeltaAbove(delta, cv_lod_bias, lclass.cullDist))
                                  => ~exists]_vars

\* the twenty-first check in a row outside the player PVS has run the distance
\* pass and spawned an instance
C20_ForcedPass ==
    /\ lastThink.forced /\ ~inPVS
    /\ m_iThinkCounter = 0 /\ sinceDistCheck = 0
    /\ m_iNumExisting > 0

\* C21: in a Think of a prepared distribution with the bias unchanged whose
\* distance pass runs, an instance that gets the exists flag did not have it
\* and is of a class with spawn distance 0 or nearer than the spawn distance,
\* and its live object is there at the end of the pass (it was not culled in
\* the same pass); an instance that loses the flag had it, is of a class with
\* a cull distance above 0 and is farther than it, and has no handle at the
\* end of the pass (it was not spawned again); an instance that has the flag
\* before and after the pass has the handle it had, so no instance is given
\* a second object while it holds one
C21_SpawnAndCullConditions ==
    /\ [][(/\ m_bPrepared /\ m_iNumEntities >= 0 /\ ~m_bWaitForTrigger
            /\ ~BiasChanged(cv_lod_bias, m_fLODBias)
            /\ sinceDistCheck > spawnArgs.dist_check_interval
            /\ sinceDistCheck' = 0
            /\ m_iThinkCounter' = 0)
           => \A k \in 1..Len(m_Entities) :
                  LET ent == m_Entities[k]
                      lclass == m_Classes[ent.classIdx + 1]
                      delta == VSub(playerOrigin, ent.origin)
                      deltaSq == LengthSqr(delta) * 10000
                      biasSq == cv_lod_bias * cv_lod_bias
                      existed == BitAnd(ent.flags, SEED_ENTITY_EXISTS) # 0
                      exists == BitAnd(m_Entities'[k].flags, SEED_ENTITY_EXISTS) # 0
                  IN  /\ Len(m_Entities') = Len(m_Entities)
                      /\ (~existed /\ exists)
                            => /\ (lclass.spawnDist = 0
                                   \/ deltaSq < lclass.spawnDist * biasSq)
                               /\ entities'[m_Entities'[k].entity + 1].used
                               /\ ~entities'[m_Entities'[k].entity + 1].removing
                      /\ (existed /\ ~exists)
                            => /\ lclass.cullDist > 0
                               /\ deltaSq > lclass.cullDist * biasSq
                               /\ m_Entities'[k].entity = 0
                               /\ entities'[ent.entity + 1].removing
                      /\ (existed /\ exists)
                            => m_Entities'[k].entity = ent.entity]_vars

\* after a distance pass one instance has a live object and the object of
\* another, culled by the pass, waits for its removal
C21_SpawnedAndCulled ==
    /\ lastThink.ran /\ lastThink.cycles = 0 /\ m_bPrepared
    /\ sinceDistCheck = 0 /\ m_iThinkCounter = 0
    /\ \E k \in 1..Len(m_Entities) :
           /\ BitAnd(m_Entities[k].flags, SEED_ENTITY_EXISTS) # 0
           /\ entities[m_Entities[k].entity + 1].used
    /\ \E e \in 1..Len(entities) :
           entities[e].used /\ entities[e].bySeed /\ entities[e].removing

(***************************************************************************)
(* Properties of the watched brethren.                                     *)
(***************************************************************************)
\* C22: the instances that PrepareEntities registers for the watched objects
\* have the exists and the spawned flag and the handle of a live object; a
\* Think that runs a cycle of the recomputation leaves every object live that
\* a watched instance named before it, with no removal pending; and in every
\* state the handle of an instance with the exists flag names an object that
\* is there
C22_WatchedNotRegenerated ==
    /\ [](\A k \in 1..Len(m_Entities) :
             BitAnd(m_Entities[k].flags, SEED_ENTITY_EXISTS) # 0
                 => entities[m_Entities[k].entity + 1].used)
    /\ [](\A k \in 1..Len(lastPrep.scanned) :
             lastPrep.classes[lastPrep.scanned[k].classIdx + 1].watch = TRUE
                 => /\ lastPrep.scanned[k].flags
                          = SEED_ENTITY_EXISTS + SEED_ENTITY_SPAWNED
                    /\ lastPrep.scanned[k].entity \in lastPrep.handles)
    /\ [][(m_fLODBias' # m_fLODBias /\ lastThink'.ran /\ lastThink'.cycles > 0)
           => \A k \in 1..Len(m_Entities) :
                  (/\ m_Classes[m_Entities[k].classIdx + 1].watch = TRUE
                   /\ BitAnd(m_Entities[k].flags, SEED_ENTITY_EXISTS) # 0
                   /\ entities[m_Entities[k].entity + 1].used
                   /\ ~entities[m_Entities[k].entity + 1].bySeed)
                      => /\ entities'[m_Entities[k].entity + 1].used
                         /\ ~entities'[m_Entities[k].entity + 1].removing]_vars

(***************************************************************************)
(* Properties of the merge of CombineEntities.                             *)
(***************************************************************************)
\* C23: in every run of CombineEntities every member of a composite has the
\* class index and the skin index of the seed instance, a later position in
\* the table and a squared distance to the seed of at most the squared
\* combine distance; with more than one PVS area on the SEED the member is in
\* the PVS area of the seed, and neither the seed nor a member has bounds that
\* reach into more than one area
C23_MembersMatchSeed ==
    \A m \in 1..Len(lastPrep.merges) :
        LET T == lastPrep.scanned
            i == lastPrep.merges[m].seed
            kept == lastPrep.merges[m].kept
            multiPVS == spawnArgs.numPVSAreas > 1
        IN  /\ \A q \in 1..Len(kept) :
                   kept[q] # i
                       => /\ T[kept[q] + 1].classIdx = T[i + 1].classIdx
                          /\ T[kept[q] + 1].skinIdx = T[i + 1].skinIdx
                          /\ kept[q] > i
                          /\ LengthSqr(VSub(T[kept[q] + 1].origin, T[i + 1].origin))
                                 <= MaxCombineDistance(spawnArgs)
                          /\ multiPVS
                                 => EntityPVS(T[kept[q] + 1], lastPrep.classes, spawnArgs)
                                        = EntityPVS(T[i + 1], lastPrep.classes, spawnArgs)
            /\ multiPVS
                   => \A q \in 1..Len(kept) :
                          EntityPVS(T[kept[q] + 1], lastPrep.classes, spawnArgs) # -1

\* C24: the physics object of a composite of a solid class whose clip model
\* is there holds as many clip models as the composite has offset records,
\* and each entity of the composite was given one of them, once
C24_ClipModelPerMember ==
    \A k \in 1..Len(m_Classes) :
        (m_Classes[k].pseudo /\ m_Classes[k].clipModels # <<>>)
            => /\ Len(m_Classes[k].clipModels) = Len(m_Classes[k].offsets)
               /\ \A a, b \in 1..Len(m_Classes[k].clipModels) :
                      a # b => m_Classes[k].clipModels[a] # m_Classes[k].clipModels[b]

\* C25: the z band of a class that AddClassFromEntity has built is not
\* inverted: z_min <= z_max, both fades are at least 0, z_min + z_fadein <=
\* z_max - z_fadeout, and the class is floored when z_min or z_max is set
C25_ZBandNotInverted ==
    \A k \in 1..Len(m_Classes) :
        LET c == m_Classes[k]
        IN  ~c.pseudo
               => /\ c.z_min <= c.z_max
                  /\ c.z_fadein >= 0
                  /\ c.z_fadeout >= 0
                  /\ c.z_min + c.z_fadein <= c.z_max - c.z_fadeout
                  /\ (spawnArgs.z_min # -1000000 \/ spawnArgs.z_max # 1000000) => c.floor

\* C26: a cull (by the distance pass of Think or by Event_CullAll) takes the
\* exists flag from an instance and leaves its spawned flag and its pseudo
\* flag as they were
C26_CullKeepsSpawnedAndPseudo ==
    [][(lastPrep' = lastPrep /\ Len(m_Entities') = Len(m_Entities))
          => \A k \in 1..Len(m_Entities) :
                 (/\ HasFlag(m_Entities[k], SEED_ENTITY_EXISTS)
                  /\ ~HasFlag(m_Entities'[k], SEED_ENTITY_EXISTS))
                     => /\ HasFlag(m_Entities'[k], SEED_ENTITY_SPAWNED)
                            = HasFlag(m_Entities[k], SEED_ENTITY_SPAWNED)
                        /\ HasFlag(m_Entities'[k], SEED_ENTITY_PSEUDO)
                            = HasFlag(m_Entities[k], SEED_ENTITY_PSEUDO)]_vars

\* C27: the event that makes a disabled distribution active again
\* (Event_Enable after Event_Disable) leaves it with its think flag set
C27_EnableSchedulesThink == [][(~active /\ active') => thinkFlag']_vars

\* C28: m_iNumExisting is the number of instances of the table that have the
\* exists flag and is never negative, and m_iNumStaticMulties is the number of
\* existing instances of composite classes
C28_CountersMatchTable ==
    /\ m_iNumExisting
           = Cardinality({k \in 1..Len(m_Entities) :
                              HasFlag(m_Entities[k], SEED_ENTITY_EXISTS)})
    /\ m_iNumExisting >= 0
    /\ m_iNumStaticMulties
           = Cardinality({k \in 1..Len(m_Entities) :
                              /\ HasFlag(m_Entities[k], SEED_ENTITY_EXISTS)
                              /\ m_Entities[k].classIdx + 1 \in 1..Len(m_Classes)
                              /\ m_Classes[m_Entities[k].classIdx + 1].pseudo})

\* C29: CombineEntities neither loses nor duplicates an instance: the
\* instances of classes that are no composites plus the offset records of all
\* composites are as many as the instances of the table before it, and every
\* instance of that table is still in the table or has a record in exactly
\* one composite
C29_CombineConserves ==
    (lastPrep.ran /\ m_Classes # <<>>)
        => LET T == lastPrep.scanned
               M == lastPrep.merges
               last == IF M = <<>> THEN [k \in 1..Len(T) |-> T[k].classIdx]
                       ELSE M[Len(M)].idxAfter
               plain == {k \in 1..Len(m_Entities) :
                             ~m_Classes[m_Entities[k].classIdx + 1].pseudo}
               records == {r \in (1..Len(m_Classes)) \X (1..(Len(T) + 1)) :
                               /\ m_Classes[r[1]].pseudo
                               /\ r[2] <= Len(m_Classes[r[1]].offsets)}
           IN  /\ Cardinality(plain) + Cardinality(records) = Len(T)
               /\ \A j \in 0..(Len(T) - 1) :
                      LET in == {n \in 1..Len(M) :
                                    \E d \in 1..Len(M[n].kept) : M[n].kept[d] = j}
                          left == /\ last[j + 1] # -1
                                  /\ \A n \in 1..Len(M) : M[n].seed # j
                      IN  \/ left /\ in = {}
                          \/ ~left /\ Cardinality(in) = 1

\* a composite that left entries out, beside instances that were not merged
C29_TruncatedAndLeft ==
    /\ lastPrep.ran
    /\ m_Classes # <<>>
    /\ \E n \in 1..Len(lastPrep.merges) :
           Len(lastPrep.merges[n].kept) < Len(lastPrep.merges[n].cand) + 1
    /\ \E k \in 1..Len(m_Entities) : ~m_Classes[m_Entities[k].classIdx + 1].pseudo
    /\ \E k \in 1..Len(m_Entities) : m_Classes[m_Entities[k].classIdx + 1].pseudo

(***************************************************************************)
(* Properties of the class index of an instance.                           *)
(***************************************************************************)
\* C30: the class index of every instance of the table is an index of the
\* class table, also after a recomputation, and no marker is left by a pass of
\* CombineEntities: the pass gives the seed the new class, the marker -1 to
\* the entries it keeps and leaves every other class index as it was
C30_ClassIdxValid ==
    /\ \A k \in 1..Len(m_Entities) :
           /\ m_Entities[k].classIdx >= 0
           /\ m_Entities[k].classIdx < Len(m_Classes)
    /\ \A n \in 1..Len(lastPrep.merges) :
           LET m == lastPrep.merges[n]
           IN  /\ Len(m.idxAfter) = Len(m.idxBefore)
               /\ \A k \in 1..Len(m.idxBefore) :
                      IF k - 1 = m.seed
                      THEN m.idxAfter[k] = Len(lastPrep.classes) + n - 1
                      ELSE IF \E d \in 1..Len(m.kept) : m.kept[d] = k - 1
                      THEN m.idxAfter[k] = -1
                      ELSE m.idxAfter[k] = m.idxBefore[k]

\* after a recomputation: a composite of class 1 that cut entries off, in a
\* table with instances
C30_RecomputedWithMarkers ==
    /\ lastThink.ran
    /\ lastThink.cycles > 0
    /\ m_Entities # <<>>
    /\ \E n \in 1..Len(lastPrep.merges) :
           LET m == lastPrep.merges[n]
           IN  /\ m.idxBefore[m.seed + 1] = 1
               /\ Len(m.kept) < Len(m.cand) + 1
    /\ \E k \in 1..Len(m_Entities) : m_Classes[m_Entities[k].classIdx + 1].pseudo

====
